---- MODULE Spec2Model ----
(***************************************************************************)
(* Model of the ConferenceBuddy browser scripts:                           *)
(*   src/cb-api.js          the centralized API module (logger, apiFetch   *)
(*                          with multipart -> JSON fallback, entity        *)
(*                          resolution, uploadSession)                     *)
(*   src/unnamed/part_000   the mobile two-step upload script              *)
(*                          (lines 1-306) and the second cb-api variant    *)
(*                          (lines 308-531)                                *)
(* Every await of fetch is a point where the remote API, a black box,      *)
(* chooses the outcome: a response (status, content type, body) or a       *)
(* transport failure.                                                      *)
(***************************************************************************)
EXTENDS Integers, Sequences, FiniteSets, TLC

VARIABLES
    \* ---- cb-api.js logger (src/cb-api.js:16-30)
    logs,           \* const logs = []          the capped buffer
    console,        \* console[fn](item)        every item pushLog mirrors, in order
    nSinceClear,    \* history: pushLog calls since the last clearLogs()
    logSubscribers, \* let logSubscribers = []   one element per onLog(cb)
    heard,          \* what each callback was invoked with, in order
    threw,          \* the last pushLog let a subscriber's exception escape
    subHist,        \* history: onLog calls and removals, per callback
    \* ---- second cb-api variant logger (src/unnamed/part_000:316-329)
    __logs,         \* const __logs = []
    \* ---- mobile script logger (src/unnamed/part_000:33-40)
    elsLogs,        \* els.logs.value, one element per appended line
    \* ---- cb-api.js uploadSession / apiFetch (src/cb-api.js:71-108, 222-247)
    upPc,           \* where uploadSession is suspended
    fd,             \* the FormData uploadSession built
    fetched,        \* every request handed to fetch(), in order
    e,              \* the error caught by the primary apiFetch (catch(e))
    sessionId,      \* const sessionId = res.id ?? ...
    ret,            \* what uploadSession returned or threw
    \* ---- mobile script doUploadFlow (src/unnamed/part_000:140-284)
    script,         \* which of the repository's scripts the page runs
    els,            \* the inputs: conf, vend, notes, photos, audioFile
    flowPc,         \* where doUploadFlow is suspended
    pollI,          \* pollProgress: the loop index i
    prog,           \* const prog = await pollProgress(sessionId)
    draft,          \* doUploadFlow's locals: ids, userNotes, files, times
    alerts,         \* every alert(...) shown, in order
    \* ---- entity resolution (src/cb-api.js:175-219, src/unnamed/part_000:470-507)
    srvShape,       \* the remote API wraps success bodies under data, or does not
    srvConfs,       \* the remote API's conferences, in creation order
    srvVendors,     \* the remote API's vendors, in creation order
    args,           \* the ids and name entity resolution is called with
    rPc,            \* where the resolver is suspended
    conferenceId,   \* the resolver's conferenceId / conference_id
    vendorId,       \* the resolver's vendorId / vendor_id
    all,            \* ensureUnknownEntities: const all = await listConferences()
    failed,         \* history: the first request of the current call that failed
    calls,          \* history: how each finished call ended
    \* ---- mobile script normalizeAudioFile (src/unnamed/part_000:104-137)
    audioIn,        \* the File or Blob it is called with (or null)
    audioOut,       \* what the call returned, once made
    \* ---- configuration and the requests the clients build
    \*      (src/cb-api.js:4-13, 49-81, src/unnamed/part_000:43-85, 332-368)
    localStorage,   \* the items 'cb_api' and 'cb_cfg_v2' of the durable storage
    CFG,            \* second variant: let CFG = { base:'', key:'' }
    elsApi,         \* mobile script: els.apiBase.value and els.apiKey.value
    sent,           \* what one client call handed to fetch(), with its arguments
    outcome,        \* where that client call stands and what it threw
    supplied,       \* history: the value setConfig was last given, per field
    \* ---- the wrappers around apiFetch (src/cb-api.js:153-173, part_000:389-427)
    wrapIn,         \* the wrapper called and the payload the server answers with
    wrapOut,        \* what the wrapper returned or threw, per shape of the answer
    \* ---- cb-api.js formDataToJsonPayload on its own (src/cb-api.js:114-150)
    payloadIn,      \* the draft uploadSession builds its form from
    payloadOut,     \* the form and what formDataToJsonPayload made of it
    \* ---- mobile script: a second doUploadFlow started by another click
    parked          \* the run of doUploadFlow that is not being stepped

logVars == <<logs, console, nSinceClear, __logs, elsLogs>>
subVars == <<logSubscribers, heard, threw, subHist>>
upVars == <<upPc, fd, e, ret>>
mobVars == <<els, flowPc, pollI, prog, draft, alerts>>
srvVars == <<srvShape, srvConfs, srvVendors>>
resVars == <<args, rPc, conferenceId, vendorId, all, failed, calls>>
audioVars == <<audioIn, audioOut>>
\* The state of the parts that the upload and resolution flows never touch.
cfgVars == <<localStorage, CFG, elsApi, sent, outcome, supplied>>
wrapVars == <<wrapIn, wrapOut>>
convertVars == <<payloadIn, payloadOut>>
restVars == <<wrapVars, convertVars, parked>>
apartVars == <<audioVars, cfgVars, restVars>>
\* What the actions of one script leave alone.
nonLogVars == <<upVars, mobVars, srvVars, resVars, fetched, sessionId, script, apartVars>>
upOthers == <<__logs, elsLogs, mobVars, srvVars, resVars, script, apartVars>>
mobOthers == <<logs, console, nSinceClear, subVars, __logs, upVars, srvVars, resVars, script, apartVars>>
resOthers == <<elsLogs, upVars, mobVars, sessionId, script, srvShape, apartVars>>
vars == <<logs, console, nSinceClear, logSubscribers, heard, threw, subHist, __logs, elsLogs,
          upPc, fd, fetched, e, sessionId, ret,
          script, els, flowPc, pollI, prog, draft, alerts,
          srvShape, srvConfs, srvVendors, args, rPc, conferenceId, vendorId, all, failed, calls,
          audioIn, audioOut, localStorage, CFG, elsApi, sent, outcome, supplied,
          wrapIn, wrapOut, payloadIn, payloadOut, parked>>

(***************************************************************************)
(* Bounds of the model.                                                    *)
(***************************************************************************)
\* Capacity N of the cb-api.js buffer. The source sets LOG_CAP = 5000
\* (src/cb-api.js:16); pushLog is the same code for every N, and the model
\* checks it with a small N so that N+1 emissions happen.
LOG_CAP == 3
\* Log calls made in one behaviour of SpecLog.
MaxEmit == 5
\* onLog calls made in one behaviour of SpecSubs.
MaxSubs == 2
\* setConfig calls made in one behaviour of SpecConfig.
MaxSets == 2

Levels == {"info", "warn", "error"}

Min(a, b) == IF a < b THEN a ELSE b

\* The last n elements of s (all of s when it is shorter).
LastN(s, n) == SubSeq(s, Len(s) - Min(n, Len(s)) + 1, Len(s))

(***************************************************************************)
(* cb-api.js logger                                                        *)
(***************************************************************************)
\* A log item {t, ...entry}. The timestamp t is the emission index.
Item(t, en) ==
    [t |-> t, level |-> en.level, msg |-> en.msg, extra |-> en.extra, id |-> en.id,
     status |-> en.status, shape |-> en.shape, shown |-> en.shown]

\* logs.push(item); if(logs.length > LOG_CAP) logs.shift();
\* (a push that never shifts, for comparison)
PushShift_NoEvict(buf, item) == Append(buf, item)
PushShift(buf, item) ==
    LET pushed == Append(buf, item)
    IN  IF Len(pushed) > LOG_CAP THEN Tail(pushed) ELSE pushed

\* A sequence of pushLog calls: each entry goes to the buffer and to the
\* console mirror, stamped in order.
RECURSIVE PushAll(_, _, _)
PushAll(buf, entries, t) ==
    IF entries = <<>> THEN buf
    ELSE LET en == Head(entries)
         IN  PushAll(PushShift(buf, Item(t, en)), Tail(entries), t + 1)

Stamp(entries, t0) ==
    [i \in 1..Len(entries) |-> Item(t0 + i, entries[i])]

\* A set of headers or of query parameters: name |-> value, a value being
\* its words in order (Bearer k1 is <<"Bearer", "k1">>).
NoHeaders == [k \in {} |-> <<>>]
Header(k, v) == [x \in {k} |-> v]
\* {...a, ...b}
Merge(a, b) == [k \in DOMAIN a \cup DOMAIN b |-> IF k \in DOMAIN b THEN b[k] ELSE a[k]]

\* The query parameters and the headers an entry shows of its request.
Shown(query, headers) == [query |-> query, headers |-> headers]

\* What a log call is given; status is the response status of a response
\* entry, shape the place of the id in the body sample netEnd records,
\* shown the url parameters and reqHeaders of a request entry.
Entry(level, msg, extra, id) ==
    [level |-> level, msg |-> msg, extra |-> extra, id |-> id, status |-> 0, shape |-> "",
     shown |-> Shown(NoHeaders, NoHeaders)]

\* The callbacks a page may hand to onLog; "bad" throws whenever it is invoked.
Callbacks == {"a", "bad"}
Throws(cb) == cb = "bad"

Count(cb, s) == Cardinality({i \in DOMAIN s : s[i] = cb})
Times(t, n) == [i \in 1..n |-> t]

\* logSubscribers.forEach(fn => { try{ fn(item); }catch{} }): which elements
\* are invoked, and whether an exception leaves the loop.
\* (a loop without the try/catch, for comparison)
Dispatch_NoCatch(subs) ==
    LET bad == {i \in DOMAIN subs : Throws(subs[i])}
    IN  IF bad = {} THEN [called |-> subs, threw |-> FALSE]
        ELSE LET k == CHOOSE i \in bad : \A j \in bad : i <= j
             IN  [called |-> SubSeq(subs, 1, k), threw |-> TRUE]
Dispatch(subs) == [called |-> subs, threw |-> FALSE]

\* The timestamps t of the items, each as often as it is delivered n times.
RECURSIVE Deliveries(_, _)
Deliveries(ts, n) ==
    IF ts = <<>> THEN <<>> ELSE Times(Head(ts), n) \o Deliveries(Tail(ts), n)

StampsOf(entries, t0) == [i \in 1..Len(entries) |-> t0 + i]

pushLogs(entries) ==
    /\ logs' = PushAll(logs, entries, Len(console) + 1)
    /\ console' = console \o Stamp(entries, Len(console))
    /\ nSinceClear' = nSinceClear + Len(entries)
    /\ heard' = [cb \in Callbacks |->
                    heard[cb] \o Deliveries(StampsOf(entries, Len(console)),
                                            Count(cb, Dispatch(logSubscribers).called))]
    /\ threw' = Dispatch(logSubscribers).threw
    /\ subHist' = [subHist EXCEPT !.due = [cb \in Callbacks |->
                    subHist.due[cb] \o Deliveries(StampsOf(entries, Len(console)),
                                                  subHist.active[cb])]]
    /\ UNCHANGED logSubscribers

\* pushLog(entry): buffer, then the console mirror.
pushLog(level, msg, extra, id) == pushLogs(<<Entry(level, msg, extra, id)>>)

\* log(msg, level='info', extra='')
LogCall(level, msg) ==
    /\ script = "cb-api"
    /\ Len(console) + Len(__logs) + Len(elsLogs) < MaxEmit
    /\ pushLog(level, msg, "", 0)
    /\ UNCHANGED <<__logs, elsLogs>>
    /\ UNCHANGED nonLogVars

\* onLog(cb){ logSubscribers.push(cb); return ()=>{ ... }; }
onLog(cb) ==
    /\ script = "cb-api"
    /\ subHist.n < MaxSubs
    /\ logSubscribers' = Append(logSubscribers, cb)
    /\ subHist' = [subHist EXCEPT !.active[cb] = @ + 1,
                                  !.handles = @ \cup {cb}, !.n = @ + 1]
    /\ UNCHANGED <<logs, console, nSinceClear, heard, threw, __logs, elsLogs>>
    /\ UNCHANGED nonLogVars

\* The function onLog(cb) returned:
\* logSubscribers = logSubscribers.filter(f=>f!==cb)
Unsubscribe(cb) ==
    /\ script = "cb-api"
    /\ cb \in subHist.handles
    /\ logSubscribers' = SelectSeq(logSubscribers, LAMBDA f : f # cb)
    /\ subHist' = [subHist EXCEPT !.active[cb] = 0]
    /\ UNCHANGED <<logs, console, nSinceClear, heard, threw, __logs, elsLogs>>
    /\ UNCHANGED nonLogVars

\* clearLogs(){ logs.length = 0; }
clearLogs ==
    /\ script = "cb-api"
    /\ logs' = <<>>
    /\ nSinceClear' = 0
    /\ UNCHANGED <<console, __logs, elsLogs, subVars>>
    /\ UNCHANGED nonLogVars

(***************************************************************************)
(* Second cb-api variant logger: __logs.push(entry), no capacity.          *)
(***************************************************************************)
log2(level, msg, extra) ==
    __logs' = Append(__logs, Item(Len(__logs) + 1, Entry(level, msg, extra, 0)))

Log2Call(level, msg) ==
    /\ script = "cb-api-2"
    /\ Len(console) + Len(__logs) + Len(elsLogs) < MaxEmit
    /\ log2(level, msg, "")
    /\ UNCHANGED <<logs, console, nSinceClear, subVars, elsLogs>>
    /\ UNCHANGED nonLogVars

clearLogs2 ==
    /\ script = "cb-api-2"
    /\ __logs' = <<>>
    /\ UNCHANGED <<logs, console, nSinceClear, subVars, elsLogs>>
    /\ UNCHANGED nonLogVars

(***************************************************************************)
(* Mobile script logger: els.logs.value = (els.logs.value || "") + line.   *)
(***************************************************************************)
mlog(level, msg, extra) ==
    elsLogs' = Append(elsLogs, Item(Len(elsLogs) + 1, Entry(level, msg, extra, 0)))

MobileLogCall(level, msg) ==
    /\ script = "mobile"
    /\ Len(console) + Len(__logs) + Len(elsLogs) < MaxEmit
    /\ mlog(level, msg, "")
    /\ UNCHANGED <<logs, console, nSinceClear, subVars, __logs>>
    /\ UNCHANGED nonLogVars

(***************************************************************************)
(* The remote API: what one fetch() can come back with.                    *)
(*   status  the HTTP status                                               *)
(*   ct      the response content type: json, text, or anything else       *)
(*   umt     the body text contains "Unsupported Media Type"               *)
(*   shape   where a JSON success body carries the new session's id        *)
(*   cors    a transport failure whose text is "Failed to fetch"           *)
(***************************************************************************)
Scripts == {"cb-api", "mobile", "cb-api-2"}
ContentTypes == {"json", "text", "other"}
IdShapes == {"id", "data.id", "session_id", "sessionId", "none"}

Resp(status, ct, umt, shape) ==
    [t |-> "resp", status |-> status, ct |-> ct, umt |-> umt, shape |-> shape,
     cors |-> FALSE, dps |-> "", ps |-> "", st |-> ""]
NetFail(cors) ==
    [t |-> "neterr", status |-> 0, ct |-> "", umt |-> FALSE, shape |-> "none",
     cors |-> cors, dps |-> "", ps |-> "", st |-> ""]

OkOutcomes == {Resp(200, "json", FALSE, sh) : sh \in IdShapes}
                \cup {Resp(200, "other", FALSE, "none")}
ErrOutcomes == {Resp(st, ct, u, "none") :
                    st \in {400, 415, 500}, ct \in ContentTypes, u \in BOOLEAN}
NetOutcomes == {NetFail(c) : c \in BOOLEAN}
Outcomes == OkOutcomes \cup ErrOutcomes \cup NetOutcomes

\* The mobile script reads of a failed response only that it failed.
MobileOutcomes ==
    OkOutcomes \cup {Resp(404, "json", FALSE, "none"), Resp(500, "text", FALSE, "none")}
        \cup NetOutcomes

\* GET /sessions/{id}: the session detail, its status under data.processing_status,
\* processing_status or status (dps, ps, st), any of them possibly missing.
PollStatuses == {"", "created", "processing"}
StatusOutcomes ==
    {[Resp(200, "json", FALSE, "none") EXCEPT !.dps = a, !.ps = b, !.st = c] :
        a \in PollStatuses, b \in PollStatuses, c \in PollStatuses}
    \cup {Resp(404, "json", FALSE, "none"), Resp(500, "text", FALSE, "none")}
    \cup NetOutcomes

\* res.ok
ResOk(o) == o.t = "resp" /\ o.status >= 200 /\ o.status <= 299

(***************************************************************************)
(* cb-api.js network layer                                                 *)
(***************************************************************************)
\* bodySample: the JSON or text body cut to 2000 characters, a
\* "[blob <type> <size> bytes]" summary for any other content type.
\* TRUE when the sample contains "Unsupported Media Type".
BodySampleHasUMT(o) == o.umt /\ o.ct \in {"json", "text"}

\* new Error(`HTTP ${res.status} ...`); err.status = res.status; err.body = bodySample
\* and the TypeError fetch() rejects with. `of` is the request it belongs to.
HttpError(id, o) ==
    [kind |-> "http", of |-> id, status |-> o.status, umt |-> BodySampleHasUMT(o),
     cors |-> FALSE]
NetworkError(id, o) ==
    [kind |-> "net", of |-> id, status |-> 0, umt |-> FALSE, cors |-> o.cors]
MissingIdError ==
    [kind |-> "missingId", of |-> 0, status |-> 0, umt |-> FALSE, cors |-> FALSE]
NoError ==
    [kind |-> "none", of |-> 0, status |-> 0, umt |-> FALSE, cors |-> FALSE]

\* What fetch() leaves in catch(e): the HttpError thrown at line 92 or the
\* transport error.
ErrorOf(id, o) == IF o.t = "resp" THEN HttpError(id, o) ELSE NetworkError(id, o)

\* netStart, netEnd, netErr: one entry each, keyed by the request id.
netStart(id, method, path) == <<Entry("info", method \o " " \o path, "request", id)>>
netEnd(id, method, path, o) ==
    <<[Entry("info", method \o " " \o path, "response", id)
            EXCEPT !.status = o.status, !.shape = o.shape]>>
netErr(id, method, path, err) ==
    <<Entry("error", method \o " " \o path, "error", id)>>
    \o (IF err.cors THEN <<Entry("warn", "Hint: CORS preflight blocked", "", 0)>>
        ELSE <<>>)

\* const isUnsupported = e?.status === 415 || (e?.status === 500 && body has the text)
\* (a test that takes a 400 for unsupported too, for comparison)
isUnsupported_Any4xx(err) == err.status \in {400, 415} \/ (err.status = 500 /\ err.umt)
isUnsupported(err) == err.status = 415 \/ (err.status = 500 /\ err.umt)

(***************************************************************************)
(* FormData and the JSON fallback payload                                  *)
(***************************************************************************)
\* One FormData entry: a string value, or a Blob/File with name and type.
Field(k, v) == [k |-> k, blob |-> FALSE, v |-> v, name |-> "", type |-> "", data |-> 0]
FilePart(k, name, type, data) ==
    [k |-> k, blob |-> TRUE, v |-> "", name |-> name, type |-> type, data |-> data]

FormKeys(form) == {form[i].k : i \in 1..Len(form)}
HasBlob(form) == \E i \in 1..Len(form) : form[i].blob

\* The drafts uploadSession is called with.
MaxImages == 1
IsoTimes == <<"2026-01-01T10:00:00Z", "2026-01-01T10:00:01Z">>
Texts == {"", "hello"}
Drafts ==
    [audioBlob : BOOLEAN, images : 0..MaxImages, text : Texts,
     conferenceId : {"C1"}, vendorId : {"V1"},
     startIso : {1}, endIso : {1, 2}]

\* secondsBetweenISO(a, b) = Math.max(0, round((b - a) / 1000)), as String(duration)
secondsBetweenISO(a, b) == IF b > a THEN b - a ELSE 0
DecimalString(n) == <<"0", "1", "2", "3">>[n + 1]

\* uploadSession's FormData (src/cb-api.js:225-235)
BuildForm(d) ==
    LET duration == DecimalString(secondsBetweenISO(d.startIso, d.endIso))
    IN  (IF d.audioBlob THEN <<FilePart("audio", "session.wav", "audio/wav", 1)>> ELSE <<>>)
        \o [i \in 1..d.images |-> FilePart("images", "img.jpg", "image/jpeg", 1 + i)]
        \o (IF d.text # "" THEN <<Field("text", d.text)>> ELSE <<>>)
        \o <<Field("conference_id", d.conferenceId), Field("conferenceId", d.conferenceId),
             Field("vendor_id", d.vendorId), Field("vendorId", d.vendorId),
             Field("start_time", IsoTimes[d.startIso]), Field("startTime", IsoTimes[d.startIso]),
             Field("end_time", IsoTimes[d.endIso]), Field("endTime", IsoTimes[d.endIso]),
             Field("duration_seconds", duration), Field("durationSeconds", duration)>>

\* plain[k] = v for every string entry, a later entry replacing an earlier one
PlainOf(form) ==
    [k \in {form[i].k : i \in {j \in 1..Len(form) : ~form[j].blob}} |->
        LET last == CHOOSE i \in 1..Len(form) :
                        /\ form[i].k = k /\ ~form[i].blob
                        /\ \A j \in (i + 1)..Len(form) : form[j].k # k \/ form[j].blob
        IN  form[last].v]

\* a || b || '' on possibly missing keys
Get(plain, k) == IF k \in DOMAIN plain THEN plain[k] ELSE ""
Or(a, b) == IF a # "" THEN a ELSE b

\* { filename, content_type, data: base64 }
Base64(data) == <<"base64", data>>
FileObj(part) ==
    [filename |-> part.name,
     content_type |-> IF part.type # "" THEN part.type ELSE "application/octet-stream",
     data |-> Base64(part.data)]

\* k.toLowerCase().includes('audio')
\* (a test that finds no audio key, for comparison)
IsAudioKey_Never(k) == FALSE
IsAudioKey(k) == k \in {"audio", "audio_file", "audio_files"}

Restrict(f, S) == [k \in S |-> f[k]]

\* formDataToJsonPayload(fd) (src/cb-api.js:114-150), when every blob is read
formDataToJsonPayload(form) ==
    LET blobs == SelectSeq(form, LAMBDA p : p.blob)
        audios == SelectSeq(blobs, LAMBDA p : IsAudioKey(p.k))
        others == SelectSeq(blobs, LAMBDA p : ~IsAudioKey(p.k))
        plain0 == PlainOf(form)
        plain == Restrict(plain0, DOMAIN plain0 \ {"notes"})
        conference_id == Or(Get(plain, "conference_id"), Get(plain, "conferenceId"))
        vendor_id == Or(Get(plain, "vendor_id"), Get(plain, "vendorId"))
        text == Get(plain, "text")
        start_time == Or(Get(plain, "start_time"), Get(plain, "startTime"))
        end_time == Or(Get(plain, "end_time"), Get(plain, "endTime"))
        duration == Or(Get(plain, "duration_seconds"), Get(plain, "durationSeconds"))
        props == [conference_id |-> conference_id, conferenceId |-> conference_id,
                vendor_id |-> vendor_id, vendorId |-> vendor_id,
                text |-> text,
                start_time |-> start_time, startTime |-> start_time,
                end_time |-> end_time, endTime |-> end_time,
                duration_seconds |-> duration, durationSeconds |-> duration]
    IN  [images |-> [i \in 1..Len(others) |-> FileObj(others[i])],
         audio |-> IF audios = <<>> THEN <<>> ELSE <<FileObj(audios[Len(audios)])>>,
         plain |-> Restrict(props, {k \in DOMAIN props : props[k] # ""}),
         files |-> TRUE]

\* JSON.stringify(obj) of an object of string properties, and no body at all.
JsonBody(plain) == [images |-> <<>>, audio |-> <<>>, plain |-> plain, files |-> FALSE]
NoPayload == JsonBody(<<>>)

\* The property names of a JSON payload object, as JSON.stringify writes it.
PayloadKeys(p) == (IF p.files THEN {"images", "audio"} ELSE {}) \cup DOMAIN p.plain

(***************************************************************************)
(* The configuration a request is sent with, read when the request is      *)
(* built (src/cb-api.js:5-7, 72-75; src/unnamed/part_000:43-54, 340-344)   *)
(***************************************************************************)
\* localStorage.getItem(k) of an item never stored.
Null == [absent |-> TRUE]
\* s.replace(/\/+$/,'')
StripSlashes(u) == IF u = "https://api/" THEN "https://api" ELSE u
\* (notes?.value || "").trim()
Trim(str) == IF str = " " THEN "" ELSE str

storeKey == "cb_api"
LS_KEY == "cb_cfg_v2"

\* JSON.parse(localStorage.getItem(storeKey) || 'null')
getConfig == localStorage[storeKey]

\* const s = localStorage.getItem(LS_KEY); if(s){ CFG = JSON.parse(s) || CFG } return {...CFG}
getConfig2 == IF localStorage[LS_KEY] # Null THEN localStorage[LS_KEY] ELSE CFG

\* getCfg's base and key
getCfg ==
    [base |-> StripSlashes(Trim(elsApi.apiBase)), key |-> Trim(elsApi.apiKey)]

\* The base URL and the key of the request being built: each client reads
\* its configuration anew in every call.
Destination ==
    IF script = "mobile" THEN getCfg
    ELSE IF script = "cb-api"
         THEN IF getConfig = Null THEN [base |-> "", key |-> ""]
              ELSE [base |-> StripSlashes(getConfig.url), key |-> getConfig.key]
         ELSE [base |-> getConfig2.base, key |-> getConfig2.key]

(***************************************************************************)
(* Requests as handed to fetch(url, {method, headers, body})               *)
(***************************************************************************)
Request(id, method, path, enc, form, json) ==
    [id |-> id, method |-> method, path |-> path, enc |-> enc,
     form |-> form, json |-> json,
     base |-> Destination.base, key |-> Destination.key,
     \* headers['Content-Type'] = 'application/json' for a string body only
     contentType |-> IF enc = "json" THEN "application/json" ELSE ""]

\* The field names an outbound body carries.
BodyFields(r) ==
    IF r.enc = "multipart" THEN FormKeys(r.form)
    ELSE IF r.enc = "json" THEN PayloadKeys(r.json)
    ELSE {}

NextId == Len(fetched) + 1

(***************************************************************************)
(* cb-api.js uploadSession, one action per await                           *)
(*   idle -> primary -> (convert -> fallback)? -> enrich -> done           *)
(***************************************************************************)
UPLOAD == "/sessions/upload"
ENRICH == "/sessions/{id}/enrich"

\* const sessionId = res.id ?? res.sessionId ?? res._id ?? res.uuid
\* for a JSON body; a non-JSON success returns a Blob, which has none of them.
SessionIdOf(o) ==
    IF o.ct = "json" /\ o.shape \in {"id", "sessionId"} THEN "S1" ELSE ""

\* uploadSession(...) up to the first fetch
UploadStart(d) ==
    /\ UNCHANGED upOthers
    /\ script = "cb-api"
    /\ upPc = "idle"
    /\ fd' = BuildForm(d)
    /\ fetched' = Append(fetched, Request(NextId, "POST", UPLOAD, "multipart", fd', NoPayload))
    /\ pushLogs(netStart(NextId, "POST", UPLOAD))
    /\ upPc' = "primary"
    /\ UNCHANGED <<e, sessionId, ret>>

\* After a successful /sessions/upload response (primary or retry): take the
\* session id, fail without one, otherwise start the enrichment request.
AfterUpload(o, entries) ==
    IF SessionIdOf(o) = ""
    THEN /\ pushLogs(entries)
         /\ ret' = [t |-> "throw", id |-> "", err |-> MissingIdError]
         /\ upPc' = "done"
         /\ UNCHANGED <<sessionId, fetched>>
    ELSE /\ sessionId' = SessionIdOf(o)
         /\ fetched' = Append(fetched, Request(NextId, "POST", ENRICH, "none", <<>>, NoPayload))
         /\ pushLogs(entries \o netStart(NextId, "POST", ENRICH))
         /\ upPc' = "enrich"
         /\ UNCHANGED ret

\* The primary (multipart) fetch settles.
UploadPrimarySettles(o) ==
    /\ UNCHANGED upOthers
    /\ upPc = "primary"
    /\ LET id == fetched[Len(fetched)].id
           done == IF o.t = "resp" THEN netEnd(id, "POST", UPLOAD, o) ELSE <<>>
           err == ErrorOf(id, o)
       IN  IF ResOk(o)
           THEN AfterUpload(o, done) /\ UNCHANGED <<fd, e>>
           ELSE IF isUnsupported(err)
                \* opts.body instanceof FormData && path.includes('/sessions/upload')
                THEN /\ e' = err
                     /\ pushLogs(done)
                     /\ upPc' = "convert"
                     /\ UNCHANGED <<fd, fetched, sessionId, ret>>
                ELSE /\ e' = err
                     /\ pushLogs(done \o netErr(id, "POST", UPLOAD, err))
                     /\ ret' = [t |-> "throw", id |-> "", err |-> err]
                     /\ upPc' = "done"
                     /\ UNCHANGED <<fd, fetched, sessionId>>

\* new Error('FileReader error'), the rejection of readBlobAsDataURL
ReadError == [kind |-> "read", of |-> 0, status |-> 0, umt |-> FALSE, cors |-> FALSE]

\* catch(re){ log(...) } ... netErr(ctx, e); throw e
\* (a catch that throws the retry's error on, for comparison)
ThrownAfterRetry_OfRetry(primary, re) == re
ThrownAfterRetry(primary, re) == primary

\* await formDataToJsonPayload(opts.body): FileReader reads every blob, and
\* may fail on any of them (r.onerror). Then the retry is sent, or the
\* primary's error is logged and rethrown.
UploadConvert(readOk) ==
    /\ UNCHANGED upOthers
    /\ upPc = "convert"
    /\ readOk \/ HasBlob(fd)
    /\ IF readOk
       THEN /\ fetched' = Append(fetched,
                    Request(NextId, "POST", UPLOAD, "json", <<>>, formDataToJsonPayload(fd)))
            /\ pushLogs(<<Entry("warn", "Retrying with JSON payload", "", 0)>>
                        \o netStart(NextId, "POST", UPLOAD))
            /\ upPc' = "fallback"
            /\ UNCHANGED <<fd, e, sessionId, ret>>
       ELSE /\ pushLogs(<<Entry("error", "Retry-as-JSON failed", "", 0)>>
                        \o netErr(e.of, "POST", UPLOAD, e))
            /\ ret' = [t |-> "throw", id |-> "", err |-> ThrownAfterRetry(e, ReadError)]
            /\ upPc' = "done"
            /\ UNCHANGED <<fd, fetched, e, sessionId>>

\* The retry (JSON) fetch settles. Its body is a string, so its own catch
\* never retries; its error reaches catch(re) of the primary call.
UploadFallbackSettles(o) ==
    /\ UNCHANGED upOthers
    /\ upPc = "fallback"
    /\ LET id == fetched[Len(fetched)].id
           done == IF o.t = "resp" THEN netEnd(id, "POST", UPLOAD, o) ELSE <<>>
           re == ErrorOf(id, o)
       IN  IF ResOk(o)
           THEN AfterUpload(o, done) /\ UNCHANGED <<fd, e>>
           ELSE /\ pushLogs(done \o netErr(id, "POST", UPLOAD, re)
                            \o <<Entry("error", "Retry-as-JSON failed", "", 0)>>
                            \o netErr(e.of, "POST", UPLOAD, e))
                /\ ret' = [t |-> "throw", id |-> "", err |-> ThrownAfterRetry(e, re)]
                /\ upPc' = "done"
                /\ UNCHANGED <<fd, fetched, e, sessionId>>

\* try{ await apiFetch(.../enrich) ; log('Enrichment triggered.') }
\* catch(e){ log('Warning: could not trigger enrichment ...','warn') }
\* return sessionId
EnrichWarning == Entry("warn", "Warning: could not trigger enrichment", "", 0)
EnrichOutcomeLog(id, o) ==
    IF ResOk(o) THEN netEnd(id, "POST", ENRICH, o) \o <<Entry("info", "Enrichment triggered.", "", 0)>>
    ELSE (IF o.t = "resp" THEN netEnd(id, "POST", ENRICH, o) ELSE <<>>)
         \o netErr(id, "POST", ENRICH, ErrorOf(id, o))
         \o <<EnrichWarning>>

\* (an uploadSession that lets the enrichment error out, for comparison)
UploadReturn_Escalate(o) ==
    IF ResOk(o) THEN [t |-> "return", id |-> sessionId, err |-> NoError]
    ELSE [t |-> "throw", id |-> "", err |-> ErrorOf(fetched[Len(fetched)].id, o)]
UploadReturn(o) == [t |-> "return", id |-> sessionId, err |-> NoError]

UploadEnrichSettles(o) ==
    /\ UNCHANGED upOthers
    /\ upPc = "enrich"
    /\ pushLogs(EnrichOutcomeLog(fetched[Len(fetched)].id, o))
    /\ ret' = UploadReturn(o)
    /\ upPc' = "done"
    /\ UNCHANGED <<fd, fetched, e, sessionId>>

UpInit ==
    /\ upPc = "idle"
    /\ fd = <<>>
    /\ fetched = <<>>
    /\ e = NoError
    /\ sessionId = ""
    /\ ret = [t |-> "none", id |-> "", err |-> NoError]
    /\ script \in Scripts

UpNext ==
    \/ \E d \in Drafts : UploadStart(d)
    \/ \E o \in Outcomes : UploadPrimarySettles(o)
    \/ \E ok \in BOOLEAN : UploadConvert(ok)
    \/ \E o \in Outcomes : UploadFallbackSettles(o)
    \/ \E o \in Outcomes : UploadEnrichSettles(o)

(***************************************************************************)
(* Mobile script (src/unnamed/part_000:14-305)                             *)
(***************************************************************************)
mlogs(entries) == elsLogs' = elsLogs \o Stamp(entries, Len(elsLogs))

M_CREATE == "/api/mobile/sessions/create"
M_BATCH == "/api/mobile/sessions/{id}/upload-batch"
M_SESSION == "/api/sessions/{id}"
M_ENRICH == "/api/sessions/{id}/trigger-enrichment"
M_UPLOAD == "/api/sessions/upload"

\* httpJSON / httpForm: the line logged before fetch, and the line logged once
\* the response text is read. A rejected fetch() logs nothing. The id names
\* the call a line belongs to.
httpRequestLine(id, method, url) == <<Entry("info", "HTTP " \o method \o " " \o url, "request", id)>>
httpResponseLine(id, method, url, o) ==
    IF o.t = "resp"
    THEN <<[Entry("info", "HTTP " \o method \o " " \o url, "response", id)
                EXCEPT !.status = o.status]>>
    ELSE <<>>


\* What the user can have entered before pressing Upload.
NotesValues == {"", " ", "hello"}
ElsStates ==
    [conf : {"", "C1"}, vend : {"", "V1"}, notes : NotesValues,
     photos : 0..MaxImages, audioFile : BOOLEAN]
NoDraft ==
    [conferenceId |-> "", vendorId |-> "", userNotes |-> "", imageFiles |-> 0,
     audio |-> FALSE, startISO |-> 1, endISO |-> 1]

\* createMobileSession's payload (lines 143-148)
CreatePayload(d) ==
    [vendor_id |-> d.vendorId, conference_id |-> d.conferenceId,
     start_time |-> IsoTimes[d.startISO], user_notes |-> d.userNotes]

\* uploadBatchToMobile's FormData (lines 158-164)
BatchForm(d) ==
    (IF d.audio THEN <<FilePart("audio_file", "rec.m4a", "audio/m4a", 1)>> ELSE <<>>)
    \o [i \in 1..d.imageFiles |-> FilePart("business_card_images", "img.jpg", "image/jpeg", 1 + i)]
    \o (IF d.userNotes # "" THEN <<Field("notes", d.userNotes)>> ELSE <<>>)
    \o <<Field("end_time", IsoTimes[d.endISO])>>

\* fallbackOneShotUpload's FormData (lines 184-192)
FallbackForm(d) ==
    <<Field("vendor_id", d.vendorId), Field("conference_id", d.conferenceId),
      Field("start_time", IsoTimes[d.startISO]), Field("end_time", IsoTimes[d.endISO])>>
    \o (IF d.userNotes # "" THEN <<Field("user_notes", d.userNotes)>> ELSE <<>>)
    \o (IF d.audio THEN <<FilePart("audio_file", "rec.m4a", "audio/m4a", 1)>> ELSE <<>>)
    \o [i \in 1..d.imageFiles |-> FilePart("photos", "img.jpg", "image/jpeg", 1 + i)]

\* res?.session_id || res?.data?.id || res?.id  (create)
\* fallback?.data?.id || fallback?.session_id || fallback?.id  (fallback)
\* A body that is not JSON parses to { raw: txt }, which has none of them.
MobileIdOf(o) ==
    IF o.ct = "json" /\ o.shape \in {"session_id", "data.id", "id"} THEN "S1" ELSE ""
FallbackIdOf(o) ==
    IF o.ct = "json" /\ o.shape \in {"session_id", "data.id", "id"} THEN "S2" ELSE ""

\* catch (err) { log('error', 'Upload flow failed', ...); alert(`Upload failed: ...`) }
\* (a catch block that only logs, for comparison)
FlowFails_NoAlert(entries) ==
    /\ mlogs(entries \o <<Entry("error", "Upload flow failed", "", 0)>>)
    /\ alerts' = alerts
    /\ flowPc' = "done"
FlowFails(entries) ==
    /\ mlogs(entries \o <<Entry("error", "Upload flow failed", "", 0)>>)
    /\ alerts' = Append(alerts, "Upload failed")
    /\ flowPc' = "done"

\* The Upload button: doUploadFlow() up to its first await.
MobileStart ==
    /\ UNCHANGED mobOthers
    /\ script = "mobile"
    /\ flowPc = "idle"
    /\ IF els.conf = "" \/ els.vend = ""
       THEN /\ FlowFails(<<>>)
            /\ UNCHANGED <<els, pollI, prog, draft, fetched, sessionId>>
       ELSE /\ draft' = [conferenceId |-> els.conf, vendorId |-> els.vend,
                         userNotes |-> Trim(els.notes), imageFiles |-> els.photos,
                         audio |-> els.audioFile, startISO |-> 1, endISO |-> 1]
            /\ fetched' = Append(fetched,
                    Request(NextId, "POST", M_CREATE, "json", <<>>, JsonBody(CreatePayload(draft'))))
            /\ mlogs(<<Entry("info", "Creating session (mobile)", "", 0)>>
                     \o httpRequestLine(NextId, "POST", M_CREATE))
            /\ flowPc' = "create"
            /\ UNCHANGED <<els, pollI, prog, alerts, sessionId>>

\* POST /api/mobile/sessions/create settles: any failure ends the flow.
\* On success endISO = new Date().toISOString() is taken, then the batch is sent.
MobileCreateSettles(o, endIso) ==
    /\ UNCHANGED mobOthers
    /\ flowPc = "create"
    /\ LET id == fetched[Len(fetched)].id
           line == httpResponseLine(id, "POST", M_CREATE, o)
       IN  IF ~ResOk(o) \/ MobileIdOf(o) = ""
           THEN /\ FlowFails(line)
                /\ UNCHANGED <<els, pollI, prog, draft, fetched, sessionId>>
           ELSE /\ sessionId' = MobileIdOf(o)
                /\ draft' = [draft EXCEPT !.endISO = endIso]
                /\ fetched' = Append(fetched,
                        Request(NextId, "POST", M_BATCH, "multipart", BatchForm(draft'), NoPayload))
                /\ mlogs(line \o <<Entry("info", "Uploading batch to mobile endpoint", "", 0)>>
                         \o httpRequestLine(NextId, "POST", M_BATCH))
                /\ flowPc' = "batch"
                /\ UNCHANGED <<els, pollI, prog, alerts>>

\* pollProgress(sessionId): the first getSession of the loop (i = 0).
StartPolling(entries, sid) ==
    /\ sessionId' = sid
    /\ pollI' = 0
    /\ fetched' = Append(fetched, Request(NextId, "GET", M_SESSION, "none", <<>>, NoPayload))
    /\ mlogs(entries \o httpRequestLine(NextId, "GET", M_SESSION))
    /\ flowPc' = "poll"
    /\ UNCHANGED <<els, prog, draft, alerts>>

\* POST .../upload-batch settles: on any failure fall back to the one-shot upload.
MobileBatchSettles(o) ==
    /\ UNCHANGED mobOthers
    /\ flowPc = "batch"
    /\ LET id == fetched[Len(fetched)].id
           line == httpResponseLine(id, "POST", M_BATCH, o)
       IN  IF ResOk(o)
           THEN StartPolling(line, sessionId)
           ELSE /\ fetched' = Append(fetched,
                        Request(NextId, "POST", M_UPLOAD, "multipart", FallbackForm(draft), NoPayload))
                /\ mlogs(line \o <<Entry("warn", "Mobile upload-batch failed; falling back", "", 0)>>
                         \o httpRequestLine(NextId, "POST", M_UPLOAD))
                /\ flowPc' = "fallback"
                /\ UNCHANGED <<els, pollI, prog, draft, alerts, sessionId>>

\* POST /api/sessions/upload (fallback) settles.
MobileFallbackSettles(o) ==
    /\ UNCHANGED mobOthers
    /\ flowPc = "fallback"
    /\ LET id == fetched[Len(fetched)].id
           line == httpResponseLine(id, "POST", M_UPLOAD, o)
       IN  IF ResOk(o)
           THEN StartPolling(line, IF FallbackIdOf(o) # "" THEN FallbackIdOf(o) ELSE sessionId)
           ELSE /\ FlowFails(line)
                /\ UNCHANGED <<els, pollI, prog, draft, fetched, sessionId>>

\* const processing = s?.data?.processing_status || s?.processing_status || s?.status
ProcessingOf(o) == Or(o.dps, Or(o.ps, o.st))

\* pollProgress(sessionId, tries = 5, delayMs = 1500)
PollTries == 5

\* After pollProgress returned: log the status, then POST trigger-enrichment.
StartEnrichment(entries, status) ==
    /\ prog' = status
    /\ fetched' = Append(fetched, Request(NextId, "POST", M_ENRICH, "json", <<>>, NoPayload))
    /\ mlogs(entries \o <<Entry("info", "Post-upload progress status", status, 0)>>
             \o httpRequestLine(NextId, "POST", M_ENRICH))
    /\ flowPc' = "enrich"
    /\ UNCHANGED <<els, pollI, draft, alerts, sessionId>>

\* GET /api/sessions/{id} settles inside the loop of pollProgress.
PollGoesOn(processing) == processing = "" \/ processing = "created"

PollFailure(line) ==
    /\ FlowFails(line)
    /\ UNCHANGED <<els, pollI, prog, draft, fetched, sessionId>>

MobilePollSettles(o) ==
    /\ UNCHANGED mobOthers
    /\ flowPc = "poll"
    /\ LET id == fetched[Len(fetched)].id
           line == httpResponseLine(id, "GET", M_SESSION, o)
           processing == ProcessingOf(o)
           check == <<Entry("info", "Progress check", processing, 0)>>
       IN  IF ~ResOk(o)
           THEN PollFailure(line)
           ELSE IF PollGoesOn(processing)
                THEN /\ mlogs(line \o check)
                     /\ flowPc' = "pollDelay"
                     /\ UNCHANGED <<els, pollI, prog, draft, alerts, fetched, sessionId>>
                ELSE StartEnrichment(line \o check, processing)

\* await new Promise(r => setTimeout(r, delayMs)); i++; next getSession or 'unknown'
\* (a loop that runs once more, for comparison)
PollLimit_OneMore(i) == i <= PollTries
PollLimit(i) == i < PollTries

MobilePollDelay ==
    /\ UNCHANGED mobOthers
    /\ flowPc = "pollDelay"
    /\ IF PollLimit(pollI + 1)
       THEN /\ pollI' = pollI + 1
            /\ fetched' = Append(fetched, Request(NextId, "GET", M_SESSION, "none", <<>>, NoPayload))
            /\ mlogs(httpRequestLine(NextId, "GET", M_SESSION))
            /\ flowPc' = "poll"
            /\ UNCHANGED <<els, prog, draft, alerts, sessionId>>
       ELSE StartEnrichment(<<>>, "unknown")

\* POST .../trigger-enrichment settles: warn on failure, then clear the inputs
\* and alert('Upload complete').
\* (a success path that leaves the inputs alone, for comparison)
ClearedInputs_Kept == els
ClearedInputs == [els EXCEPT !.notes = "", !.photos = 0, !.audioFile = FALSE]

MobileEnrichOutcome(o) == "Upload complete"

MobileEnrichLine == Entry("warn", "Trigger-enrichment endpoint unavailable; continuing.", "", 0)

MobileEnrichSettles(o) ==
    /\ UNCHANGED mobOthers
    /\ flowPc = "enrich"
    /\ LET id == fetched[Len(fetched)].id
           line == httpResponseLine(id, "POST", M_ENRICH, o)
       IN  /\ mlogs(line \o (IF ResOk(o)
                             THEN <<Entry("info", "Enrichment triggered", "", 0)>>
                             ELSE <<MobileEnrichLine>>))
           /\ els' = ClearedInputs
           /\ alerts' = Append(alerts, MobileEnrichOutcome(o))
           /\ flowPc' = "done"
           /\ UNCHANGED <<pollI, prog, draft, fetched, sessionId>>

NoInputs == [conf |-> "", vend |-> "", notes |-> "", photos |-> 0, audioFile |-> FALSE]

(***************************************************************************)
(* Mobile script: the Upload button pressed again                          *)
(* (src/unnamed/part_000:286-292). The handler calls doUploadFlow() with   *)
(* no check of a run under way, so a second run starts while the first     *)
(* awaits a response. Each run has its own locals; the inputs, the log and *)
(* the alerts are shared. The run being stepped is in the flow variables,  *)
(* the other one is parked; the second run is stepped to its end before    *)
(* the first goes on.                                                      *)
(***************************************************************************)
Run(pc, i, status, d, requests, sid) ==
    [flowPc |-> pc, pollI |-> i, prog |-> status, draft |-> d, fetched |-> requests,
     sessionId |-> sid]
NotParked == Run("none", 0, "", NoDraft, <<>>, "")

\* click: e.preventDefault(); doUploadFlow() -- a new run with fresh locals
ClickAgain ==
    /\ script = "mobile"
    /\ flowPc \in {"create", "batch", "fallback", "poll", "pollDelay", "enrich"}
    /\ parked = NotParked
    /\ parked' = Run(flowPc, pollI, prog, draft, fetched, sessionId)
    /\ flowPc' = "idle"
    /\ pollI' = 0
    /\ prog' = ""
    /\ draft' = NoDraft
    /\ fetched' = <<>>
    /\ sessionId' = ""
    /\ UNCHANGED <<els, alerts, elsLogs, logs, console, nSinceClear, subVars, __logs, upPc, fd, e,
                   ret, srvVars, resVars, script, audioVars, cfgVars, wrapVars, convertVars>>

\* The second run is over; the pending response of the first run arrives.
Resume ==
    /\ script = "mobile"
    /\ flowPc = "done"
    /\ parked.flowPc \notin {"none", "done"}
    /\ parked' = Run(flowPc, pollI, prog, draft, fetched, sessionId)
    /\ flowPc' = parked.flowPc
    /\ pollI' = parked.pollI
    /\ prog' = parked.prog
    /\ draft' = parked.draft
    /\ fetched' = parked.fetched
    /\ sessionId' = parked.sessionId
    /\ UNCHANGED <<els, alerts, elsLogs, logs, console, nSinceClear, subVars, __logs, upPc, fd, e,
                   ret, srvVars, resVars, script, audioVars, cfgVars, wrapVars, convertVars>>

\* The answers the server gives while two runs overlap.
OverlapOutcomes == {Resp(200, "json", FALSE, "session_id"), Resp(500, "text", FALSE, "none")}
OverlapStatuses ==
    {[Resp(200, "json", FALSE, "none") EXCEPT !.st = a] : a \in {"created", "processing"}}
    \cup {Resp(404, "json", FALSE, "none")}

OverlapNext ==
    \/ MobileStart
    \/ \E o \in OverlapOutcomes : MobileCreateSettles(o, 2)
    \/ \E o \in OverlapOutcomes : MobileBatchSettles(o)
    \/ \E o \in OverlapOutcomes : MobileFallbackSettles(o)
    \/ \E o \in OverlapStatuses : MobilePollSettles(o)
    \/ MobilePollDelay
    \/ \E o \in OverlapOutcomes : MobileEnrichSettles(o)
    \/ ClickAgain
    \/ Resume

MobInit ==
    /\ parked = NotParked
    /\ els \in (IF script = "mobile" THEN ElsStates ELSE {NoInputs})
    /\ flowPc = "idle"
    /\ pollI = 0
    /\ prog = ""
    /\ draft = NoDraft
    /\ alerts = <<>>

MobNext ==
    \/ MobileStart
    \/ \E o \in MobileOutcomes, t \in {1, 2} : MobileCreateSettles(o, t)
    \/ \E o \in MobileOutcomes : MobileBatchSettles(o)
    \/ \E o \in MobileOutcomes : MobileFallbackSettles(o)
    \/ \E o \in StatusOutcomes : MobilePollSettles(o)
    \/ MobilePollDelay
    \/ \E o \in MobileOutcomes : MobileEnrichSettles(o)

(***************************************************************************)
(* Mobile script: normalizeAudioFile (src/unnamed/part_000:104-137)        *)
(* A file name is its part before the last dot (stem) and the part after   *)
(* it (ext, "" when the name has no dot); the empty name has neither.      *)
(***************************************************************************)
Name(stem, ext) == [stem |-> stem, ext |-> ext]
NoName == Name("", "")
AudioFile(type, name) == [null |-> FALSE, type |-> type, name |-> name]
NoFile == [null |-> TRUE, type |-> "", name |-> NoName]

\* const allowed = [...]
AllowedTypes ==
    {"audio/mpeg", "audio/mp3", "audio/wav", "audio/x-wav", "audio/aac", "audio/x-aac",
     "audio/mp4", "audio/m4a", "audio/x-m4a", "audio/ogg", "application/ogg"}

\* The declared types a picked or recorded file can come with: the allowed
\* ones, none, and others that browsers report.
OtherTypes ==
    {"", "audio/webm", "audio/ogg; codecs=opus", "audio/vnd.wave", "audio/mpeg3",
     "audio/aacp", "video/mp4"}
AudioTypes == AllowedTypes \cup OtherTypes

\* /ogg/i.test(type), /wav/i.test(type), /mp3|mpeg/i.test(type), /aac/i.test(type)
TypeHasOgg(type) == type \in {"audio/ogg", "application/ogg", "audio/ogg; codecs=opus"}
TypeHasWav(type) == type \in {"audio/wav", "audio/x-wav", "audio/vnd.wave"}
TypeHasMp3(type) == type \in {"audio/mpeg", "audio/mp3", "audio/mpeg3"}
TypeHasAac(type) == type \in {"audio/aac", "audio/x-aac", "audio/aacp"}

KnownExts == {"mp3", "wav", "m4a", "aac", "ogg"}
AudioExts == KnownExts \cup {"", "MP3", "webm", "caf"}
AudioNames == {NoName} \cup {Name("rec", x) : x \in AudioExts}
AudioInputs == {NoFile} \cup {AudioFile(t, n) : t \in AudioTypes, n \in AudioNames}

\* The /i flag of the extension tests.
LowerExt(x) == IF x = "MP3" THEN "mp3" ELSE x

\* /\.(mp3|wav|m4a|aac|ogg)$/i.test(guessedName)
hasKnownExt(name) == name # NoName /\ LowerExt(name.ext) \in KnownExts

\* let ext = 'm4a'; if (ogg) ... else if (wav) ... else if (mp3) ... else if (aac) ...
GuessExt(f) ==
    IF TypeHasOgg(f.type) \/ LowerExt(f.name.ext) = "ogg" THEN "ogg"
    ELSE IF TypeHasWav(f.type) \/ LowerExt(f.name.ext) = "wav" THEN "wav"
    ELSE IF TypeHasMp3(f.type) \/ LowerExt(f.name.ext) = "mp3" THEN "mp3"
    ELSE IF TypeHasAac(f.type) \/ LowerExt(f.name.ext) = "aac" THEN "aac"
    ELSE "m4a"

\* const typeMap = { mp3: 'audio/mpeg', wav: 'audio/wav', ... }
typeMap ==
    [mp3 |-> "audio/mpeg", wav |-> "audio/wav", m4a |-> "audio/m4a",
     aac |-> "audio/aac", ogg |-> "audio/ogg"]

\* guessedName && !hasKnownExt ? guessedName.replace(/\.[^.]+$/, '') + '.' + ext
\*                             : (guessedName || `session_audio.${ext}`)
SafeName(name, ext) ==
    IF name # NoName /\ ~hasKnownExt(name) THEN Name(name.stem, ext)
    ELSE IF name # NoName THEN name
    ELSE Name("session_audio", ext)

\* The File (or, where File cannot be constructed, the Blob given the same
\* name and type) that normalizeAudioFile returns.
normalizeAudioFile(f) ==
    IF f.null THEN NoFile
    ELSE IF ~(f.type \in AllowedTypes) \/ ~hasKnownExt(f.name)
         THEN AudioFile(typeMap[GuessExt(f)], SafeName(f.name, GuessExt(f)))
         ELSE f

NotCalled == [t |-> "none", file |-> NoFile]

NormalizeCall ==
    /\ script = "mobile"
    /\ audioOut = NotCalled
    /\ audioOut' = [t |-> "return", file |-> normalizeAudioFile(audioIn)]
    /\ UNCHANGED <<audioIn, logVars, subVars, upVars, mobVars, srvVars, resVars, fetched,
                   sessionId, script, cfgVars, restVars>>

AudioInit ==
    /\ audioIn \in (IF script = "mobile" THEN AudioInputs ELSE {NoFile})
    /\ audioOut = NotCalled

\* normalizeAudioFile is not under study: no file is picked.
QuietAudio == audioIn = NoFile

AudioNext == NormalizeCall

(***************************************************************************)
(* The remote API's conferences and vendors. Ids are numbers, 0 standing   *)
(* for a missing (undefined, null or empty) id.                            *)
(***************************************************************************)
\* Resolver calls made in one behaviour.
MaxCalls == 2

Shapes == {"bare", "data"}
SeededConfs == <<[id |-> 101, name |-> "Expo"], [id |-> 102, name |-> "UNKNOWN CONFERENCE"]>>
SeededVendors == <<[id |-> 201, name |-> "Acme", conf |-> 101]>>

\* (name || '').toLowerCase()  and  /^unknown conference$/i
Lower(name) ==
    CASE name \in {"Unknown Conference", "UNKNOWN CONFERENCE"} -> "unknown conference"
      [] name \in {"Unknown Vendor", "UNKNOWN VENDOR"} -> "unknown vendor"
      [] name = "Acme" -> "acme"
      [] name = "Expo" -> "expo"
      [] OTHER -> name

NewConfId == 101 + Len(srvConfs)
NewVendorId == 201 + Len(srvVendors)
SrvVendorsOf(cid) == SelectSeq(srvVendors, LAMBDA v : v.conf = cid)
SrvHasVendor(vid) == \E i \in 1..Len(srvVendors) : srvVendors[i].id = vid
SrvVendor(vid) == srvVendors[CHOOSE i \in 1..Len(srvVendors) : srvVendors[i].id = vid]

\* list.find(pred): the first element that satisfies it
FindByName(list, lname) ==
    LET hits == {i \in 1..Len(list) : Lower(list[i].name) = lname}
    IN  IF hits = {} THEN 0
        ELSE list[CHOOSE i \in hits : \A j \in hits : i <= j].id

\* What a resolver request can come back with.
ResolverOutcomes ==
    {Resp(200, "json", FALSE, "none"), Resp(500, "text", FALSE, "none"), NetFail(FALSE)}

ArgSets ==
    [conferenceId : {0, 101, 102}, vendorId : {0, 201, 299},
     preferredVendorName : {"", "Acme"}]
NoArgs == [conferenceId |-> 0, vendorId |-> 0, preferredVendorName |-> ""]

TypeError == [kind |-> "type", of |-> 0, status |-> 0, umt |-> FALSE, cors |-> FALSE]

\* How a call ended, with what the remote API then holds.
Returned(cid, vid, confs, vendors) ==
    [t |-> "return", conferenceId |-> cid, vendorId |-> vid, err |-> NoError,
     nConfs |-> Len(confs), nVendors |-> Len(vendors), failed |-> failed']
Threw(err, confs, vendors) ==
    [t |-> "throw", conferenceId |-> 0, vendorId |-> 0, err |-> err,
     nConfs |-> Len(confs), nVendors |-> Len(vendors), failed |-> failed']

FirstFailure(o) ==
    IF failed = 0 /\ ~ResOk(o) THEN fetched[Len(fetched)].id ELSE failed

(***************************************************************************)
(* cb-api.js: ensureConferenceVendor, ensureUnknownConference,             *)
(* getOrCreateVendorByName (src/cb-api.js:153-219), one action per await   *)
(***************************************************************************)
\* What apiFetch logs once fetch() settles: netEnd for a response, netErr for
\* whatever it then throws.
SettleLog(id, method, path, o) ==
    (IF o.t = "resp" THEN netEnd(id, method, path, o) ELSE <<>>)
    \o (IF ResOk(o) THEN <<>> ELSE netErr(id, method, path, ErrorOf(id, o)))

\* apiFetch(path, opts) up to fetch()
CbSend(entries, method, path, plain, pc) ==
    /\ fetched' = Append(fetched,
            Request(NextId, method, path, IF method = "POST" THEN "json" ELSE "none",
                    <<>>, JsonBody(plain)))
    /\ pushLogs(entries \o netStart(NextId, method, path))
    /\ rPc' = pc

CbEnd(entries, result) ==
    /\ pushLogs(entries)
    /\ calls' = Append(calls, result)
    /\ rPc' = "idle"
    /\ UNCHANGED fetched

\* preferredVendorName || 'Unknown Vendor'
VendorName == IF args.preferredVendorName # "" THEN args.preferredVendorName ELSE "Unknown Vendor"

\* JSON.stringify drops a property whose value is undefined.
VendorPayload(name, cid) ==
    IF cid = 0 THEN [name |-> name] ELSE [name |-> name, conference_id |-> cid]
ConfPayload == [name |-> "Unknown Conference", start_date |-> "today", end_date |-> "today"]

\* if(vendorId){ getVendor } else { getOrCreateVendorByName }
CbVendorPhase(entries, cid, vid) ==
    /\ conferenceId' = cid
    /\ vendorId' = vid
    /\ IF vid # 0
       THEN CbSend(entries, "GET", "/vendors/{id}", <<>>, "getVendor")
       ELSE CbSend(entries, "GET", "/conferences/{id}/vendors", <<>>, "listVendors")

EnsureCall ==
    /\ UNCHANGED resOthers
    /\ script = "cb-api"
    /\ rPc = "idle"
    /\ Len(calls) < MaxCalls
    /\ failed' = 0
    /\ IF args.conferenceId = 0
       THEN /\ CbSend(<<>>, "GET", "/conferences", <<>>, "listConfs")
            /\ conferenceId' = 0
            /\ vendorId' = args.vendorId
       ELSE CbVendorPhase(<<>>, args.conferenceId, args.vendorId)
    /\ UNCHANGED <<__logs, srvConfs, srvVendors, args, all, calls>>

\* ensureUnknownConference: the list settles; a failure is logged and the
\* conference is created all the same.
ListConfsFailure(o, log0) ==
    /\ CbSend(log0 \o <<Entry("warn", "Could not list conferences", "", 0)>>,
              "POST", "/conferences", ConfPayload, "createConf")
    /\ UNCHANGED <<conferenceId, vendorId, calls>>

EnsureListConfsSettles(o) ==
    /\ UNCHANGED resOthers
    /\ rPc = "listConfs"
    /\ failed' = FirstFailure(o)
    /\ LET id == fetched[Len(fetched)].id
           log0 == SettleLog(id, "GET", "/conferences", o)
           unk == FindByName(srvConfs, "unknown conference")
       IN  IF ResOk(o)
           THEN IF unk # 0
                THEN CbVendorPhase(log0, unk, vendorId) /\ UNCHANGED calls
                ELSE /\ CbSend(log0, "POST", "/conferences", ConfPayload, "createConf")
                     /\ UNCHANGED <<conferenceId, vendorId, calls>>
           ELSE ListConfsFailure(o, log0)
    /\ UNCHANGED <<__logs, srvConfs, srvVendors, args, all>>

\* const cid = created?.id ?? created?._id ?? created?.uuid ?? created?.conferenceId
\* of the raw response body: an id wrapped under data is not found.
CreatedId(id) == IF srvShape = "bare" THEN id ELSE 0

EnsureCreateConfSettles(o) ==
    /\ UNCHANGED resOthers
    /\ rPc = "createConf"
    /\ failed' = FirstFailure(o)
    /\ LET id == fetched[Len(fetched)].id
           log0 == SettleLog(id, "POST", "/conferences", o)
       IN  IF ResOk(o)
           THEN /\ srvConfs' = Append(srvConfs, [id |-> NewConfId, name |-> "Unknown Conference"])
                /\ CbVendorPhase(log0 \o <<Entry("info", "Created Unknown Conference", "", 0)>>,
                                 CreatedId(NewConfId), vendorId)
                /\ UNCHANGED calls
           ELSE /\ CbEnd(log0, Threw(ErrorOf(id, o), srvConfs, srvVendors))
                /\ UNCHANGED <<srvConfs, conferenceId, vendorId>>
    /\ UNCHANGED <<__logs, srvVendors, args, all>>

\* getVendor settles. A vendor the API does not hold is a 404.
EnsureGetVendorSettles(o) ==
    /\ UNCHANGED resOthers
    /\ rPc = "getVendor"
    /\ ResOk(o) => SrvHasVendor(vendorId)
    /\ failed' = FirstFailure(o)
    /\ LET id == fetched[Len(fetched)].id
           log0 == SettleLog(id, "GET", "/vendors/{id}", o)
           \* v?.conference_id ?? v?.conferenceId ?? v?.data?.conference_id ?? null
           vcid == IF ResOk(o) THEN SrvVendor(vendorId).conf ELSE 0
       IN  IF ResOk(o)
           THEN IF vcid # 0 /\ conferenceId # 0 /\ vcid # conferenceId
                THEN /\ CbSend(log0 \o <<Entry("warn", "Vendor belongs to a different conference", "", 0)>>,
                               "GET", "/conferences/{id}/vendors", <<>>, "listVendors")
                     /\ UNCHANGED calls
                ELSE CbEnd(log0, Returned(conferenceId, vendorId, srvConfs, srvVendors))
           ELSE /\ CbSend(log0 \o <<Entry("warn", "Provided vendor ID not found", "", 0)>>,
                          "GET", "/conferences/{id}/vendors", <<>>, "listVendors")
                /\ UNCHANGED calls
    /\ UNCHANGED <<__logs, srvConfs, srvVendors, args, all, conferenceId, vendorId>>

\* getOrCreateVendorByName: the list settles.
EnsureListVendorsSettles(o) ==
    /\ UNCHANGED resOthers
    /\ rPc = "listVendors"
    /\ failed' = FirstFailure(o)
    /\ LET id == fetched[Len(fetched)].id
           log0 == SettleLog(id, "GET", "/conferences/{id}/vendors", o)
           found == FindByName(SrvVendorsOf(conferenceId), Lower(VendorName))
       IN  IF ResOk(o) /\ found # 0
           THEN /\ vendorId' = found
                /\ CbEnd(log0, Returned(conferenceId, found, srvConfs, srvVendors))
           ELSE /\ CbSend(log0 \o (IF ResOk(o) THEN <<>>
                                   ELSE <<Entry("warn", "Could not list vendors", "", 0)>>),
                          "POST", "/vendors", VendorPayload(VendorName, conferenceId), "createVendor")
                /\ UNCHANGED <<vendorId, calls>>
    /\ UNCHANGED <<__logs, srvConfs, srvVendors, args, all, conferenceId>>

EnsureCreateVendorSettles(o) ==
    /\ UNCHANGED resOthers
    /\ rPc = "createVendor"
    /\ failed' = FirstFailure(o)
    /\ LET id == fetched[Len(fetched)].id
           log0 == SettleLog(id, "POST", "/vendors", o)
           vendors == Append(srvVendors, [id |-> NewVendorId, name |-> VendorName, conf |-> conferenceId])
       IN  IF ResOk(o)
           THEN /\ srvVendors' = vendors
                /\ vendorId' = CreatedId(NewVendorId)
                /\ CbEnd(log0 \o <<Entry("info", "Created Vendor", "", 0)>>,
                         Returned(conferenceId, CreatedId(NewVendorId), srvConfs, vendors))
           ELSE /\ CbEnd(log0, Threw(ErrorOf(id, o), srvConfs, srvVendors))
                /\ UNCHANGED <<srvVendors, vendorId>>
    /\ UNCHANGED <<__logs, srvConfs, args, all, conferenceId>>

\* The mobile script resolves nothing: there the remote entities play no part.
ResInit ==
    /\ srvShape \in (IF script = "mobile" THEN {"bare"} ELSE Shapes)
    /\ \/ srvConfs = <<>> /\ srvVendors = <<>>
       \/ script # "mobile" /\ srvConfs = SeededConfs /\ srvVendors = SeededVendors
    /\ args \in (IF script = "mobile" THEN {NoArgs} ELSE ArgSets)
    /\ rPc = "idle"
    /\ conferenceId = 0
    /\ vendorId = 0
    /\ all = <<>>
    /\ failed = 0
    /\ calls = <<>>

\* No resolver runs: the remote entities play no part.
QuietServer ==
    /\ srvShape = "bare"
    /\ srvConfs = <<>>
    /\ args = NoArgs

(***************************************************************************)
(* Second cb-api variant: apiFetch and ensureUnknownEntities               *)
(* (src/unnamed/part_000:359-427, 470-507), one action per await           *)
(***************************************************************************)
logs2(entries) == __logs' = __logs \o Stamp(entries, Len(__logs))

\* apiFetch logs two lines before fetch(), two after the response text is
\* read, a third for a non-2xx status, and nothing when fetch() rejects.
requestLines2(id, method, path) ==
    <<Entry("info", "HTTP " \o method \o " " \o path, "request", id),
      Entry("info", "{id, method, url, reqHeaders}", "request", id)>>
responseLines2(id, method, path, o) ==
    IF o.t # "resp" THEN <<>>
    ELSE <<Entry("info", "HTTP " \o method \o " " \o path, "response", id),
           [Entry("info", "{id, status, resHeaders, body}", "response", id)
                EXCEPT !.status = o.status]>>
         \o (IF ResOk(o) THEN <<>>
             ELSE <<Entry("error", "HTTP " \o method \o " " \o path, "error", id)>>)

Send2(entries, method, path, plain, pc) ==
    /\ fetched' = Append(fetched,
            Request(NextId, method, path, IF method = "POST" THEN "json" ELSE "none",
                    <<>>, JsonBody(plain)))
    /\ logs2(entries \o requestLines2(NextId, method, path))
    /\ rPc' = pc

End2(entries, result) ==
    /\ logs2(entries)
    /\ calls' = Append(calls, result)
    /\ rPc' = "idle"
    /\ UNCHANGED fetched

\* return (j && j.data) || []  and  return j.data
ListOf2(list) == IF srvShape = "data" THEN list ELSE <<>>

\* if(!vendor_id){ listVendorsForConference ... } return { conference_id, vendor_id }
VendorPhase2(entries, cid, vid, confs) ==
    /\ conferenceId' = cid
    /\ vendorId' = vid
    /\ IF vid = 0
       THEN Send2(entries, "GET", "/conferences/{id}/vendors", <<>>, "listVendors2") /\ UNCHANGED calls
       ELSE End2(entries, Returned(cid, vid, confs, srvVendors))

Ensure2Call ==
    /\ UNCHANGED resOthers
    /\ script = "cb-api-2"
    /\ rPc = "idle"
    /\ Len(calls) < MaxCalls
    /\ failed' = 0
    /\ all' = <<>>
    /\ IF args.conferenceId # 0 /\ args.vendorId # 0
       THEN /\ calls' = Append(calls, Returned(args.conferenceId, args.vendorId, srvConfs, srvVendors))
            /\ conferenceId' = args.conferenceId
            /\ vendorId' = args.vendorId
            /\ UNCHANGED <<__logs, fetched, rPc>>
       ELSE IF args.conferenceId = 0
            THEN /\ Send2(<<>>, "GET", "/conferences", <<>>, "listConfs2")
                 /\ conferenceId' = 0
                 /\ vendorId' = args.vendorId
                 /\ UNCHANGED calls
            ELSE VendorPhase2(<<>>, args.conferenceId, 0, srvConfs)
    /\ UNCHANGED <<logs, console, nSinceClear, subVars, srvConfs, srvVendors, args>>

\* const all = await listConferences(): a failure is not caught.
Ensure2ListConfsSettles(o) ==
    /\ UNCHANGED resOthers
    /\ rPc = "listConfs2"
    /\ failed' = FirstFailure(o)
    /\ LET id == fetched[Len(fetched)].id
           log0 == responseLines2(id, "GET", "/conferences", o)
           list == ListOf2(srvConfs)
           found == FindByName(list, "unknown conference")
       IN  IF ~ResOk(o)
           THEN /\ End2(log0, Threw(ErrorOf(id, o), srvConfs, srvVendors))
                /\ UNCHANGED <<all, conferenceId, vendorId>>
           ELSE /\ all' = list
                /\ IF found # 0
                   THEN VendorPhase2(log0, found, vendorId, srvConfs)
                   ELSE /\ Send2(log0, "POST", "/conferences", ConfPayload, "createConf2")
                        /\ UNCHANGED <<conferenceId, vendorId, calls>>
    /\ UNCHANGED <<logs, console, nSinceClear, subVars, srvConfs, srvVendors, args>>

\* try{ const c = await createConference(...); conference_id = c.id }
\* catch(e){ warn; if(all.length) conference_id = all[0].id; else throw e }
\* createConference returns j.data: undefined for a bare body, and c.id throws.
CreateFailure2(log0, err, confs) ==
    LET warn == log0 \o <<Entry("warn", "Could not create Unknown Conference automatically", "", 0)>>
    IN  IF all # <<>>
        THEN VendorPhase2(warn, all[1].id, vendorId, confs)
        ELSE /\ End2(warn, Threw(err, confs, srvVendors))
             /\ UNCHANGED <<conferenceId, vendorId>>

Ensure2CreateConfSettles(o) ==
    /\ UNCHANGED resOthers
    /\ rPc = "createConf2"
    /\ failed' = FirstFailure(o)
    /\ LET id == fetched[Len(fetched)].id
           log0 == responseLines2(id, "POST", "/conferences", o)
           confs == Append(srvConfs, [id |-> NewConfId, name |-> "Unknown Conference"])
       IN  IF ResOk(o)
           THEN /\ srvConfs' = confs
                /\ IF srvShape = "data"
                   THEN VendorPhase2(log0, NewConfId, vendorId, confs)
                   ELSE CreateFailure2(log0, TypeError, confs)
           ELSE /\ srvConfs' = srvConfs
                /\ CreateFailure2(log0, ErrorOf(id, o), srvConfs)
    /\ UNCHANGED <<logs, console, nSinceClear, subVars, srvVendors, args, all>>

\* const vlist = await listVendorsForConference(conference_id)
Ensure2ListVendorsSettles(o) ==
    /\ UNCHANGED resOthers
    /\ rPc = "listVendors2"
    /\ failed' = FirstFailure(o)
    /\ LET id == fetched[Len(fetched)].id
           log0 == responseLines2(id, "GET", "/conferences/{id}/vendors", o)
           fv == FindByName(ListOf2(SrvVendorsOf(conferenceId)), "unknown vendor")
       IN  IF ~ResOk(o)
           THEN /\ End2(log0, Threw(ErrorOf(id, o), srvConfs, srvVendors))
                /\ UNCHANGED vendorId
           ELSE IF fv # 0
                THEN /\ vendorId' = fv
                     /\ End2(log0, Returned(conferenceId, fv, srvConfs, srvVendors))
                ELSE /\ Send2(log0, "POST", "/vendors",
                              VendorPayload("Unknown Vendor", conferenceId), "createVendor2")
                     /\ UNCHANGED <<vendorId, calls>>
    /\ UNCHANGED <<logs, console, nSinceClear, subVars, srvConfs, srvVendors, args, all, conferenceId>>

\* const v = await createVendor(...); vendor_id = v.id
Ensure2CreateVendorSettles(o) ==
    /\ UNCHANGED resOthers
    /\ rPc = "createVendor2"
    /\ failed' = FirstFailure(o)
    /\ LET id == fetched[Len(fetched)].id
           log0 == responseLines2(id, "POST", "/vendors", o)
           vendors == Append(srvVendors, [id |-> NewVendorId, name |-> "Unknown Vendor", conf |-> conferenceId])
       IN  IF ResOk(o)
           THEN /\ srvVendors' = vendors
                /\ IF srvShape = "data"
                   THEN /\ vendorId' = NewVendorId
                        /\ End2(log0, Returned(conferenceId, NewVendorId, srvConfs, vendors))
                   ELSE /\ End2(log0, Threw(TypeError, srvConfs, vendors))
                        /\ UNCHANGED vendorId
           ELSE /\ End2(log0, Threw(ErrorOf(id, o), srvConfs, srvVendors))
                /\ UNCHANGED <<srvVendors, vendorId>>
    /\ UNCHANGED <<logs, console, nSinceClear, subVars, srvConfs, args, all, conferenceId>>

Res2Next ==
    \/ Ensure2Call
    \/ \E o \in ResolverOutcomes : Ensure2ListConfsSettles(o)
    \/ \E o \in ResolverOutcomes : Ensure2CreateConfSettles(o)
    \/ \E o \in ResolverOutcomes : Ensure2ListVendorsSettles(o)
    \/ \E o \in ResolverOutcomes : Ensure2CreateVendorSettles(o)

CbResNext ==
    \/ EnsureCall
    \/ \E o \in ResolverOutcomes : EnsureListConfsSettles(o)
    \/ \E o \in ResolverOutcomes : EnsureCreateConfSettles(o)
    \/ \E o \in ResolverOutcomes : EnsureGetVendorSettles(o)
    \/ \E o \in ResolverOutcomes : EnsureListVendorsSettles(o)
    \/ \E o \in ResolverOutcomes : EnsureCreateVendorSettles(o)

(***************************************************************************)
(* Configuration, authentication and the request each client builds        *)
(* (src/cb-api.js:4-13, 33-59, 71-108;                                     *)
(*  src/unnamed/part_000:43-85, 332-386)                                   *)
(***************************************************************************)
\* {}
NoFields == [k \in {} |-> ""]

Urls == {"", "https://api", "https://api/"}
ApiKeys == {"", "k1", "k2"}
Modes == {"xapikey", "bearer", "query", "basic"}
ParamNames == {"apiKey"}
JsonType == <<"application/json">>
Redacted == <<"***">>

\* x || d
OrElse(x, d) == IF x = "" THEN d ELSE x


\* What the page passes to a client: the repository's own callers, and any
\* other caller with headers and a body of its own.
Bodies == {"none", "string", "form"}
CallerHeaders ==
    {NoHeaders, Header("Accept", JsonType), Header("Content-Type", JsonType),
     Header("X-API-Key", <<"k1">>), Header("Authorization", <<"Basic", "k1">>)}
Call(caller, method, path, headers, body) ==
    [caller |-> caller, method |-> method, path |-> path, headers |-> headers, body |-> body]
PageCalls == {Call("page", "POST", "/health", h, b) : h \in CallerHeaders, b \in Bodies}

NoCall == [t |-> "none", msg |-> ""]
InFlight == [t |-> "sent", msg |-> ""]
CallReturned == [t |-> "returned", msg |-> ""]
CallThrew(msg) == [t |-> "threw", msg |-> msg]

\* One element of sent: the call, the request fetch() was given, and the base
\* URL and key the client had read.
Sent(call, req, base, key) == [call |-> call, req |-> req, base |-> base, key |-> key]

WithUrl(entries, query) ==
    [i \in DOMAIN entries |->
        IF entries[i].id = 0 THEN entries[i]
        ELSE [entries[i] EXCEPT !.shown = Shown(query, NoHeaders)]]

cfgOthers == <<upVars, mobVars, srvVars, resVars, fetched, sessionId, script, audioVars, restVars>>

(***************************************************************************)
(* cb-api.js: getConfig, setConfig, apiFetch                               *)
(***************************************************************************)
ConfigFields == {"url", "key", "mode", "param"}
Configs == [url : Urls, key : ApiKeys, mode : Modes, param : ParamNames]
Partials == {Restrict(c, D) : c \in Configs, D \in SUBSET ConfigFields}


\* const next = { url:'', key:'', mode:'xapikey', param:'apiKey', ...prev, ...cfg }
setConfigNext(cfg) ==
    LET prev == IF getConfig = Null THEN NoFields ELSE getConfig
    IN  Merge(Merge([url |-> "", key |-> "", mode |-> "xapikey", param |-> "apiKey"], prev),
              cfg)

\* setConfig(cfg), called before the page's client call
SetConfig(cfg) ==
    /\ script = "cb-api"
    /\ outcome = NoCall
    /\ supplied.n < MaxSets
    /\ localStorage' = [localStorage EXCEPT ![storeKey] = setConfigNext(cfg)]
    /\ supplied' = [n |-> supplied.n + 1, last |-> Merge(supplied.last, cfg)]
    /\ UNCHANGED <<CFG, elsApi, sent, outcome>>
    /\ UNCHANGED <<logVars, subVars>>
    /\ UNCHANGED cfgOthers

buildAuthHeaders(mode, key) ==
    IF mode = "bearer" THEN Header("Authorization", <<"Bearer", key>>)
    ELSE IF mode = "xapikey" THEN Header("X-API-Key", <<key>>)
    ELSE NoHeaders

\* addQuery sets a parameter only if (v!=null && v!=='')
addQuery(k, v) == IF v = "" THEN NoHeaders ELSE Header(k, <<v>>)
applyAuthToUrl(mode, key, paramName) ==
    IF mode = "query" THEN addQuery(paramName, key) ELSE NoHeaders

redactHeaders(headers) ==
    [k \in DOMAIN headers |->
        IF k \in {"X-API-Key", "Authorization"} THEN Redacted ELSE headers[k]]
redactUrlParam(query, paramName) ==
    [k \in DOMAIN query |-> IF k = paramName THEN Redacted ELSE query[k]]

\* if (opts.body && typeof opts.body === 'string' && !headers['Content-Type'])
\* (a test that leaves the type of the body out, for comparison)
needsContentType_AnyBody(body, headers) ==
    body # "none" /\ "Content-Type" \notin DOMAIN headers
needsContentType(body, headers) ==
    body = "string" /\ "Content-Type" \notin DOMAIN headers

\* apiFetch, lines 73-77: the url and the headers fetch() is given, and the
\* paramName netStart keeps in ctx
apiFetchRequest(cfg, call) ==
    LET mode == OrElse(cfg.mode, "xapikey")
        headers == Merge(call.headers, buildAuthHeaders(mode, cfg.key))
    IN  [url |-> StripSlashes(cfg.url), path |-> call.path, method |-> call.method,
         paramName |-> OrElse(cfg.param, "apiKey"),
         query |-> applyAuthToUrl(mode, cfg.key, OrElse(cfg.param, "apiKey")),
         headers |-> IF needsContentType(call.body, headers)
                     THEN Merge(headers, Header("Content-Type", JsonType))
                     ELSE headers,
         body |-> call.body]

\* netStart's entry: the url through redactUrlParam, the headers through redactHeaders
netStartEntry(id, req) ==
    [Entry("info", req.method \o " " \o req.path, "request", id)
        EXCEPT !.shown = Shown(redactUrlParam(req.query, req.paramName),
                               redactHeaders(req.headers))]

\* The repository's callers of apiFetch (lines 154, 158, 238).
CbCalls ==
    {Call("uploadSession", "POST", UPLOAD, NoHeaders, "form"),
     Call("createConference", "POST", "/conferences", NoHeaders, "string"),
     Call("listConferences", "GET", "/conferences", NoHeaders, "none")}
        \cup PageCalls

\* apiFetch from the check of the configuration to fetch()
apiFetchSend(entries, call) ==
    LET req == apiFetchRequest(getConfig, call)
    IN  /\ sent' = Append(sent, Sent(call, req, getConfig.url, getConfig.key))
        /\ pushLogs(entries \o <<netStartEntry(Len(sent) + 1, req)>>)

ApiFetchCall(call) ==
    /\ script = "cb-api"
    /\ outcome = NoCall
    /\ IF getConfig = Null \/ getConfig.url = ""
       THEN /\ outcome' = CallThrew("Missing API base URL. Open API Settings.")
            /\ UNCHANGED <<sent, logs, console, nSinceClear, subVars>>
       ELSE /\ apiFetchSend(<<>>, call)
            /\ outcome' = InFlight
    /\ UNCHANGED <<localStorage, CFG, elsApi, supplied, __logs, elsLogs>>
    /\ UNCHANGED cfgOthers

\* fetch() settles. A multipart upload the server would not take is sent
\* again as JSON by a nested apiFetch, which reads the same configuration;
\* ok tells whether formDataToJsonPayload could read the form.
ApiFetchSettles(o, ok) ==
    /\ script = "cb-api"
    /\ outcome = InFlight
    /\ LET id == Len(sent)
           r == sent[id]
           err == ErrorOf(id, o)
           inner == id > 1
           ended == WithUrl(
                (IF o.t = "resp" THEN netEnd(id, r.req.method, r.req.path, o) ELSE <<>>),
                redactUrlParam(r.req.query, r.req.paramName))
           errored(i) == WithUrl(netErr(i, r.req.method, r.req.path, err),
                                 redactUrlParam(sent[i].req.query, sent[i].req.paramName))
           retry == isUnsupported(err) /\ r.call.body = "form" /\ r.call.path = UPLOAD
       IN  IF ResOk(o)
           THEN /\ pushLogs(ended)
                /\ outcome' = CallReturned
                /\ UNCHANGED sent
           ELSE IF retry /\ ok
           THEN /\ apiFetchSend(ended \o <<Entry("warn", "Retrying with JSON payload", "", 0)>>,
                                [r.call EXCEPT !.body = "string"])
                /\ outcome' = InFlight
           ELSE /\ pushLogs(ended
                    \o (IF retry
                        THEN <<Entry("error", "Retry-as-JSON failed to construct payload", "", 0)>>
                        ELSE <<>>)
                    \o errored(id)
                    \o (IF inner
                        THEN <<Entry("error", "Retry-as-JSON failed to construct payload", "", 0)>>
                             \o errored(1)
                        ELSE <<>>))
                /\ outcome' = CallThrew("HTTP")
                /\ UNCHANGED sent
    /\ UNCHANGED <<localStorage, CFG, elsApi, supplied, __logs, elsLogs>>
    /\ UNCHANGED cfgOthers

(***************************************************************************)
(* Second cb-api variant: setConfig, getConfig, assertConfig, apiFetch     *)
(***************************************************************************)
Partials2 == {Restrict(c, D) : c \in [base : Urls, key : ApiKeys], D \in SUBSET {"base", "key"}}


\* setConfig writes the fields it is given into CFG, in memory, and stores CFG.
SetConfig2(cfg) ==
    /\ script = "cb-api-2"
    /\ outcome = NoCall
    /\ supplied.n < MaxSets
    /\ LET next == [base |-> IF "base" \in DOMAIN cfg THEN StripSlashes(cfg.base) ELSE CFG.base,
                    key |-> IF "key" \in DOMAIN cfg THEN cfg.key ELSE CFG.key]
       IN  /\ CFG' = next
           /\ localStorage' = [localStorage EXCEPT ![LS_KEY] = next]
    /\ log2("info", "Config updated.", "")
    /\ supplied' = [n |-> supplied.n + 1, last |-> Merge(supplied.last, cfg)]
    /\ UNCHANGED <<elsApi, sent, outcome>>
    /\ UNCHANGED <<logs, console, nSinceClear, subVars, elsLogs>>
    /\ UNCHANGED cfgOthers

GetConfig2Call ==
    /\ script = "cb-api-2"
    /\ CFG' = getConfig2
    /\ UNCHANGED <<localStorage, elsApi, sent, outcome, supplied>>
    /\ UNCHANGED <<logVars, subVars>>
    /\ UNCHANGED cfgOthers

\* The page is loaded again, before its client call: what the scripts hold
\* in memory is as at the start, the durable storage is kept.
Restart ==
    /\ script \in {"cb-api", "cb-api-2"}
    /\ outcome = NoCall
    /\ CFG' = [base |-> "", key |-> ""]
    /\ logs' = <<>>
    /\ nSinceClear' = 0
    /\ __logs' = <<>>
    /\ logSubscribers' = <<>>
    /\ subHist' = [subHist EXCEPT !.active = [cb \in Callbacks |-> 0]]
    /\ UNCHANGED <<console, heard, threw, elsLogs>>
    /\ UNCHANGED <<localStorage, elsApi, sent, outcome, supplied>>
    /\ UNCHANGED cfgOthers

\* The repository's callers of the variant's apiFetch (lines 390, 440, 461).
Calls2 ==
    {Call("listConferences", "GET", "/conferences", Header("Accept", JsonType), "none"),
     Call("createSessionJson", "POST", UPLOAD,
          Merge(Header("Content-Type", JsonType), Header("Accept", JsonType)), "string"),
     Call("addFilesToSession", "POST", "/sessions/{id}/add-files", NoHeaders, "form")}
        \cup PageCalls

\* const hdrs = new Headers(headers); if(!hdrs.has('X-API-Key')) hdrs.set('X-API-Key', key)
apiFetch2Headers(headers, key) ==
    IF "X-API-Key" \in DOMAIN headers THEN headers
    ELSE Merge(headers, Header("X-API-Key", <<key>>))

\* apiFetch up to fetch(): assertConfig, the headers, the two request lines
ApiFetch2Call(call) ==
    /\ script = "cb-api-2"
    /\ outcome = NoCall
    /\ CFG' = getConfig2
    /\ LET c == getConfig2
           id == Len(sent) + 1
           req == [url |-> c.base, path |-> call.path, method |-> call.method,
                   query |-> NoHeaders, headers |-> apiFetch2Headers(call.headers, c.key),
                   body |-> call.body]
       IN  IF c.base = ""
           THEN /\ outcome' = CallThrew("API base URL not configured.")
                /\ UNCHANGED <<sent, __logs>>
           ELSE IF c.key = ""
           THEN /\ outcome' = CallThrew("API key not configured.")
                /\ UNCHANGED <<sent, __logs>>
           ELSE /\ sent' = Append(sent, Sent(call, req, c.base, c.key))
                /\ logs2([requestLines2(id, call.method, call.path)
                            EXCEPT ![2].shown = Shown(NoHeaders, req.headers)])
                /\ outcome' = InFlight
    /\ UNCHANGED <<localStorage, elsApi, supplied>>
    /\ UNCHANGED <<logs, console, nSinceClear, subVars, elsLogs>>
    /\ UNCHANGED cfgOthers

ApiFetch2Settles(o) ==
    /\ script = "cb-api-2"
    /\ outcome = InFlight
    /\ logs2(responseLines2(Len(sent), sent[Len(sent)].req.method, sent[Len(sent)].req.path, o))
    /\ outcome' = IF ResOk(o) THEN CallReturned ELSE CallThrew("HTTP")
    /\ UNCHANGED <<localStorage, CFG, elsApi, sent, supplied>>
    /\ UNCHANGED <<logs, console, nSinceClear, subVars, elsLogs>>
    /\ UNCHANGED cfgOthers

(***************************************************************************)
(* Mobile script: getCfg, authHeaders, httpJSON, httpForm                  *)
(***************************************************************************)
ApiInputs == [apiBase : {"", "https://api/"}, apiKey : {"", " ", "k1"}]
NoApiInputs == [apiBase |-> "", apiKey |-> ""]

\* the error getCfg throws ("" when it returns)
getCfgError ==
    IF getCfg.base = "" THEN "API base URL is required."
    ELSE IF getCfg.key = "" THEN "API key is required."
    ELSE ""

\* return { 'X-API-Key': key, ...extra }
authHeaders(extra) == Merge(Header("X-API-Key", <<getCfg.key>>), extra)

httpJSONHeaders ==
    authHeaders(Merge(Header("Accept", JsonType), Header("Content-Type", JsonType)))
httpFormHeaders == authHeaders(Header("Accept", JsonType))

\* The script's calls: createMobileSession, pollProgress, uploadBatch.
MobileCalls ==
    {Call("httpJSON", "POST", "/mobile/sessions", NoHeaders, "string"),
     Call("httpJSON", "GET", "/sessions/{id}", NoHeaders, "none"),
     Call("httpForm", "POST", "/mobile/sessions/{id}/batch-upload", NoHeaders, "form")}

\* httpJSON and httpForm up to fetch(): the request line with its headers,
\* then fetch with the same headers.
HttpCall(call) ==
    /\ script = "mobile"
    /\ outcome = NoCall
    /\ LET id == Len(sent) + 1
           headers == IF call.caller = "httpForm" THEN httpFormHeaders ELSE httpJSONHeaders
           req == [url |-> getCfg.base, path |-> call.path, method |-> call.method,
                   query |-> NoHeaders, headers |-> headers, body |-> call.body]
       IN  IF getCfgError # ""
           THEN /\ outcome' = CallThrew(getCfgError)
                /\ UNCHANGED <<sent, elsLogs>>
           ELSE /\ sent' = Append(sent, Sent(call, req, getCfg.base, getCfg.key))
                /\ mlogs([httpRequestLine(id, call.method, call.path)
                            EXCEPT ![1].shown = Shown(NoHeaders, headers)])
                /\ outcome' = InFlight
    /\ UNCHANGED <<localStorage, CFG, elsApi, supplied>>
    /\ UNCHANGED <<logs, console, nSinceClear, subVars, __logs>>
    /\ UNCHANGED cfgOthers

HttpSettles(o) ==
    /\ script = "mobile"
    /\ outcome = InFlight
    /\ mlogs(httpResponseLine(Len(sent), sent[Len(sent)].req.method,
                              sent[Len(sent)].req.path, o))
    /\ outcome' = IF ResOk(o) THEN CallReturned ELSE CallThrew("HTTP")
    /\ UNCHANGED <<localStorage, CFG, elsApi, sent, supplied>>
    /\ UNCHANGED <<logs, console, nSinceClear, subVars, __logs>>
    /\ UNCHANGED cfgOthers

\* What one fetch() of a client call comes back with.
CallOutcomes ==
    {Resp(200, "json", FALSE, "id"), Resp(400, "text", FALSE, "none"),
     Resp(415, "text", FALSE, "none"), NetFail(FALSE)}

\* A page that was configured in an earlier visit, or never.
\* The settings changed while an upload is under way: the user edits the
\* apiBase or apiKey input of the mobile page, the cb-api.js page calls
\* setConfig. One change per run, to another usable base URL or key.
UploadUnderWay ==
    IF script = "mobile"
    THEN flowPc \in {"create", "batch", "fallback", "poll", "pollDelay", "enrich"}
    ELSE upPc \in {"primary", "convert", "fallback", "enrich"}

EditedInputs == {[apiBase |-> "https://b/", apiKey |-> "k1"], [apiBase |-> "https://api/", apiKey |-> "k2"]}
EditInputs(x) ==
    /\ script = "mobile"
    /\ UploadUnderWay
    /\ supplied.n = 0
    /\ elsApi' = x
    /\ supplied' = [supplied EXCEPT !.n = 1]
    /\ UNCHANGED <<localStorage, CFG, sent, outcome>>
    /\ UNCHANGED <<logVars, subVars>>
    /\ UNCHANGED cfgOthers

ChangedSettings == {[url |-> "https://b"], [key |-> "k2"]}
ChangeConfig(cfg) ==
    /\ UploadUnderWay
    /\ supplied.n = 0
    /\ SetConfig(cfg)

FlowConfigNext ==
    \/ UpNext
    \/ MobNext
    \/ \E x \in EditedInputs : EditInputs(x)
    \/ \E cfg \in ChangedSettings : ChangeConfig(cfg)

Configured == [url |-> "https://api", key |-> "k1", mode |-> "xapikey", param |-> "apiKey"]
Configured2 == [base |-> "https://api", key |-> "k1"]
ConfiguredInputs == [apiBase |-> "https://api/", apiKey |-> "k1"]

CfgInit ==
    /\ localStorage \in
            {[cb_api |-> Null, cb_cfg_v2 |-> Null]}
            \cup (IF script = "mobile" THEN {}
                  ELSE {[cb_api |-> Configured, cb_cfg_v2 |-> Configured2]})
    /\ CFG = [base |-> "", key |-> ""]
    /\ elsApi \in (IF script = "mobile" THEN ApiInputs ELSE {NoApiInputs})
    /\ sent = <<>>
    /\ outcome = NoCall
    /\ supplied = [n |-> 0,
                   last |-> IF localStorage[storeKey] = Null THEN NoFields
                            ELSE IF script = "cb-api" THEN Configured
                            ELSE Configured2]

\* The flows run on a configured page and make no client call of their own.
QuietConfig ==
    IF script = "mobile" THEN elsApi = ConfiguredInputs ELSE localStorage[storeKey] # Null

CfgNext ==
    \/ \E cfg \in Partials : SetConfig(cfg)
    \/ \E call \in CbCalls : ApiFetchCall(call)
    \/ \E o \in CallOutcomes, ok \in BOOLEAN : ApiFetchSettles(o, ok)
    \/ \E cfg \in Partials2 : SetConfig2(cfg)
    \/ GetConfig2Call
    \/ Restart
    \/ \E call \in Calls2 : ApiFetch2Call(call)
    \/ \E o \in CallOutcomes : ApiFetch2Settles(o)
    \/ \E call \in MobileCalls : HttpCall(call)
    \/ \E o \in CallOutcomes : HttpSettles(o)

(***************************************************************************)
(* The wrappers around apiFetch: listConferences, listVendorsForConference, *)
(* createConference, createVendor, getVendor                               *)
(* (src/cb-api.js:153-173, src/unnamed/part_000:389-427)                   *)
(***************************************************************************)
\* A JSON value as the wrappers tell them apart: an array, an object with an
\* id, an object that holds another value under data, or undefined.
Arr(items) == [kind |-> "array", items |-> items, id |-> 0, of |-> ""]
Obj(id) == [kind |-> "object", items |-> <<>>, id |-> id, of |-> ""]
Undefined == [kind |-> "undefined", items |-> <<>>, id |-> 0, of |-> ""]
Envelope(v) == [kind |-> "envelope", items |-> v.items, id |-> v.id, of |-> v.kind]
\* r.data
DataOf(r) ==
    IF r.kind = "envelope" THEN [kind |-> r.of, items |-> r.items, id |-> r.id, of |-> ""]
    ELSE Undefined

ListWrappers == {"listConferences", "listVendorsForConference"}
ObjectWrappers == {"createConference", "createVendor", "getVendor"}
ListPayloads == {Arr(<<>>), Arr(<<101>>), Arr(<<101, 102>>)}
ObjectPayloads == {Obj(101), Obj(201)}
WrapperInputs ==
    [wrapper : ListWrappers, payload : ListPayloads]
        \cup [wrapper : ObjectWrappers, payload : ObjectPayloads]

\* The body the server answers with, in one shape or the other.
BodyOf(shape, payload) == IF shape = "data" THEN Envelope(payload) ELSE payload

\* cb-api.js: return Array.isArray(r) ? r : (r?.data || [])
listOrData(r) ==
    IF r.kind = "array" THEN r
    ELSE IF DataOf(r) # Undefined THEN DataOf(r)
    ELSE Arr(<<>>)
\* cb-api.js: return apiFetch(...)
rawBody(r) == r
\* second variant: return (j && j.data) || []
dataOrEmpty(j) == IF DataOf(j) # Undefined THEN DataOf(j) ELSE Arr(<<>>)
\* second variant: return j.data
dataOnly(j) == DataOf(j)

\* What the wrapper of the page's script makes of the body.
Wrapped(wrapper, r) ==
    IF script = "cb-api"
    THEN (IF wrapper \in ListWrappers THEN listOrData(r) ELSE rawBody(r))
    ELSE (IF wrapper \in ListWrappers THEN dataOrEmpty(r) ELSE dataOnly(r))

NoResult == [t |-> "none", value |-> Undefined, err |-> NoError, raised |-> NoError]

\* The wrapper's apiFetch settles, the server answering in the given shape:
\* the wrapper returns what it makes of the body, or apiFetch's error goes
\* through it (no wrapper has a try/catch).
WrapperSettles(shape, o) ==
    /\ script \in {"cb-api", "cb-api-2"}
    /\ wrapOut[shape] = NoResult
    /\ wrapOut' = [wrapOut EXCEPT ![shape] =
            IF ResOk(o)
            THEN [t |-> "return", value |-> Wrapped(wrapIn.wrapper, BodyOf(shape, wrapIn.payload)),
                  err |-> NoError, raised |-> NoError]
            ELSE [t |-> "throw", value |-> Undefined,
                  err |-> ErrorOf(1, o), raised |-> ErrorOf(1, o)]]
    /\ UNCHANGED <<wrapIn, convertVars, parked, logVars, subVars, upVars, mobVars, srvVars, resVars,
                   fetched, sessionId, script, audioVars, cfgVars>>

WrapInit ==
    /\ wrapIn \in WrapperInputs
    /\ wrapOut = [shape \in Shapes |-> NoResult]

QuietWrappers == wrapIn = [wrapper |-> "listConferences", payload |-> Arr(<<>>)]

WrapNext == \E shape \in Shapes, o \in ResolverOutcomes : WrapperSettles(shape, o)

(***************************************************************************)
(* uploadSession's multipart payload and its JSON form                     *)
(* (src/cb-api.js:114-150, 222-235)                                        *)
(***************************************************************************)
\* The drafts the conversion is checked with: ids and notes blank or not.
ConvertDrafts ==
    [audioBlob : BOOLEAN, images : 0..MaxImages, text : {"", "hello", "notes"},
     conferenceId : {"", "C1", "7"}, vendorId : {"", "V1"},
     startIso : {1, 2}, endIso : {1, 2}]

NotConverted == [t |-> "none", form |-> <<>>, json |-> NoPayload]

\* uploadSession builds the form of the draft and formDataToJsonPayload
\* converts it; reading a blob of the form may fail.
ConvertCall(readOk) ==
    /\ script = "cb-api"
    /\ payloadOut = NotConverted
    /\ readOk \/ HasBlob(BuildForm(payloadIn))
    /\ payloadOut' =
            IF readOk
            THEN [t |-> "return", form |-> BuildForm(payloadIn),
                  json |-> formDataToJsonPayload(BuildForm(payloadIn))]
            ELSE [t |-> "throw", form |-> BuildForm(payloadIn), json |-> NoPayload]
    /\ UNCHANGED <<payloadIn, wrapVars, parked, logVars, subVars, upVars, mobVars, srvVars, resVars,
                   fetched, sessionId, script, audioVars, cfgVars>>

ConvertInit ==
    /\ payloadIn \in ConvertDrafts
    /\ payloadOut = NotConverted

QuietConvert ==
    payloadIn = [audioBlob |-> FALSE, images |-> 0, text |-> "", conferenceId |-> "C1",
                 vendorId |-> "V1", startIso |-> 1, endIso |-> 1]

ConvertNext == \E readOk \in BOOLEAN : ConvertCall(readOk)

LogInit ==
    /\ logs = <<>>
    /\ console = <<>>
    /\ nSinceClear = 0
    /\ logSubscribers = <<>>
    /\ heard = [cb \in Callbacks |-> <<>>]
    /\ threw = FALSE
    /\ subHist = [active |-> [cb \in Callbacks |-> 0],
                  due |-> [cb \in Callbacks |-> <<>>],
                  handles |-> {}, n |-> 0]
    /\ __logs = <<>>
    /\ elsLogs = <<>>

SubNext ==
    \/ LogCall("info", "m")
    \/ clearLogs
    \/ \E cb \in Callbacks : onLog(cb)
    \/ \E cb \in Callbacks : Unsubscribe(cb)

LogNext ==
    \/ \E l \in Levels : LogCall(l, "m")
    \/ clearLogs
    \/ \E l \in Levels : Log2Call(l, "m")
    \/ clearLogs2
    \/ \E l \in Levels : MobileLogCall(l, "m")

(***************************************************************************)
(* Specifications                                                          *)
(***************************************************************************)
Init == LogInit /\ UpInit /\ MobInit /\ ResInit /\ AudioInit /\ CfgInit /\ WrapInit
            /\ ConvertInit
\* The parts that take no part in a flow.
QuietRest == QuietWrappers /\ QuietConvert

\* The start of a page on which only the logger and the upload run.
InitQuiet == QuietServer /\ QuietAudio /\ QuietRest /\ Init /\ QuietConfig
InitResolve == QuietAudio /\ QuietRest /\ Init /\ QuietConfig
InitAudio == QuietServer /\ QuietRest /\ Init /\ QuietConfig
\* The start of a page whose configuration is set and used.
InitConfig == QuietServer /\ QuietAudio /\ QuietRest /\ els = NoInputs /\ Init
\* The start of a page that calls one wrapper of its API module.
InitWrap == QuietServer /\ QuietAudio /\ QuietConvert /\ els = NoInputs /\ Init /\ QuietConfig
\* The mobile page with notes, a photo and a recording entered.
InitMobileRun ==
    /\ script = "mobile"
    /\ els \in {x \in ElsStates : x.notes = "hello" /\ x.photos = 1 /\ x.audioFile}
    /\ InitQuiet
\* A page with one draft entered, its settings in place.
InitFlowConfig ==
    /\ els \in {NoInputs, [conf |-> "C1", vend |-> "V1", notes |-> "hello", photos |-> 1,
                           audioFile |-> TRUE]}
    /\ InitQuiet
\* The start of a page that converts one upload payload.
InitConvert == QuietServer /\ QuietAudio /\ QuietWrappers /\ els = NoInputs /\ Init /\ QuietConfig

SpecLog == InitQuiet /\ [][LogNext]_vars

\* The cb-api.js logger with its subscribers.
SpecSubs == InitQuiet /\ [][SubNext]_vars

\* One run of cb-api.js uploadSession.
SpecUpload == InitQuiet /\ [][UpNext]_vars

\* One run of the mobile script's doUploadFlow.
SpecMobile == InitQuiet /\ [][MobNext]_vars

\* One run of doUploadFlow in which every request settles and the timer fires.
SpecMobileFair == InitMobileRun /\ [][MobNext]_vars /\ WF_vars(MobNext)

\* doUploadFlow with the Upload button pressed a second time during the run.
SpecOverlap == InitMobileRun /\ [][OverlapNext]_vars

\* One upload during which the settings may be changed once.
SpecFlowConfig == InitFlowConfig /\ [][FlowConfigNext]_vars

\* One upload, by whichever script the page runs.
SpecFlows == InitQuiet /\ [][UpNext \/ MobNext]_vars

\* Entity resolution, called up to MaxCalls times in sequence.
SpecResolve == InitResolve /\ [][CbResNext \/ Res2Next]_vars

\* Configuration updates, restarts and one call of the page's HTTP client.
SpecConfig == InitConfig /\ [][CfgNext]_vars

\* One wrapper, its request answered once in each shape.
SpecWrap == InitWrap /\ [][WrapNext]_vars

\* formDataToJsonPayload applied to the form of one draft.
SpecConvert == InitConvert /\ [][ConvertNext]_vars

\* normalizeAudioFile applied to one picked file.
SpecAudio == InitAudio /\ [][AudioNext]_vars

Next ==
    \/ LogNext
    \/ SubNext
    \/ UpNext
    \/ MobNext
    \/ CbResNext
    \/ Res2Next
    \/ AudioNext
    \/ CfgNext
    \/ WrapNext
    \/ ConvertNext
    \/ FlowConfigNext
    \/ OverlapNext

Spec == Init /\ [][Next]_vars

(***************************************************************************)
(* What the claims read off a behaviour                                    *)
(***************************************************************************)
RequestsTo(path) == SelectSeq(fetched, LAMBDA r : r.path = path)
FallbackPosts == SelectSeq(fetched, LAMBDA r : r.path = UPLOAD /\ r.enc = "json")
Logged(log, msg) == \E i \in 1..Len(log) : log[i].msg = msg
CallEntries(log, id, kind) ==
    Len(SelectSeq(log, LAMBDA en : en.id = id /\ en.extra = kind))
Rethrown(err) == [t |-> "throw", id |-> "", err |-> err]

(***************************************************************************)
(* C1. cb-api.js uploadSession: after a primary multipart POST to          *)
(* /sessions/upload that failed with HTTP 415, at most one JSON POST to    *)
(* the same path is issued and never a third attempt; it is exactly one    *)
(* when the JSON payload was built, and none, with the primary's error     *)
(* rethrown, when reading a file of the form failed. After a primary that  *)
(* failed with HTTP 400 no fallback is issued and the caller receives the  *)
(* primary's error.                                                        *)
(***************************************************************************)
C1_FallbackAtMostOnce ==
    /\ Len(FallbackPosts) <= 1
    /\ Len(RequestsTo(UPLOAD)) <= 2
    /\ (upPc = "done" /\ e.kind = "http" /\ e.status = 415) =>
            IF Logged(console, "Retrying with JSON payload")
            THEN Len(FallbackPosts) = 1
            ELSE /\ Len(FallbackPosts) = 0
                 /\ HasBlob(fd)
                 /\ ret = Rethrown(e)
    /\ (upPc = "done" /\ e.kind = "http" /\ e.status = 415 /\ ~HasBlob(fd)) =>
            Len(FallbackPosts) = 1
    /\ (upPc = "done" /\ e.kind = "http" /\ e.status = 400) =>
            /\ Len(fetched) = 1
            /\ e.of = fetched[1].id
            /\ ret = Rethrown(e)

\* The primary got 415, the one JSON retry got 415 too, and nothing followed.
C1_Witness ==
    /\ upPc = "done"
    /\ e.status = 415
    /\ Len(fetched) = 2
    /\ Len(FallbackPosts) = 1
    /\ \E i \in 1..Len(console) :
            /\ console[i].id = fetched[2].id
            /\ console[i].extra = "response"
            /\ console[i].status = 415
    /\ ret = Rethrown(e)

\* C1 as stated: a 415 on the primary is always followed by exactly one
\* fallback attempt, a 400 by none and the original error.
C1_ExactlyOneFallback ==
    /\ (upPc = "done" /\ e.kind = "http" /\ e.status = 415) => Len(FallbackPosts) = 1
    /\ (upPc = "done" /\ e.kind = "http" /\ e.status = 400) =>
            Len(FallbackPosts) = 0 /\ ret = Rethrown(e)

(***************************************************************************)
(* C2. No outbound upload payload, multipart or JSON, on any upload path,  *)
(* carries a field named "notes".                                          *)
(***************************************************************************)
C2_NoNotesField ==
    \A i \in 1..Len(fetched) : "notes" \notin BodyFields(fetched[i])

(***************************************************************************)
(* C3. Once a flow has ended, every HTTP call it made has exactly one      *)
(* request entry and exactly one outcome entry (a response entry or an     *)
(* error entry, not both, not neither) under the call's id, in the log of  *)
(* the script that made it.                                                *)
(***************************************************************************)
OnePairPerCall(log) ==
    \A i \in 1..Len(fetched) :
        /\ CallEntries(log, fetched[i].id, "request") = 1
        /\ CallEntries(log, fetched[i].id, "response")
            + CallEntries(log, fetched[i].id, "error") = 1

C3_OnePairPerCall ==
    /\ (script = "cb-api" /\ upPc = "done") => OnePairPerCall(console)
    /\ (script = "mobile" /\ flowPc = "done") => OnePairPerCall(elsLogs)
    /\ (script = "cb-api" /\ rPc = "idle" /\ upPc = "idle") => OnePairPerCall(console)
    /\ (script = "cb-api-2" /\ rPc = "idle") => OnePairPerCall(__logs)

(***************************************************************************)
(* C4. Entity resolution with no ids supplied, called twice in sequence    *)
(* against a remote state that starts with no conferences and no vendors,  *)
(* every request answered successfully: the first call creates exactly one *)
(* "Unknown Conference" and one "Unknown Vendor", the second call creates  *)
(* nothing and returns the same two ids.                                   *)
(***************************************************************************)
StartedEmpty == srvConfs = <<>> \/ srvConfs[1] # SeededConfs[1]

C4_IdempotentDiscovery ==
    (/\ Len(calls) = 2
     /\ args = NoArgs
     /\ StartedEmpty
     /\ calls[1].failed = 0
     /\ calls[2].failed = 0) =>
        /\ calls[1].t = "return" /\ calls[2].t = "return"
        /\ calls[1].nConfs = 1 /\ calls[1].nVendors = 1
        /\ calls[2].nConfs = 1 /\ calls[2].nVendors = 1
        /\ srvConfs[1].name = "Unknown Conference"
        /\ srvVendors[1].name = "Unknown Vendor"
        /\ calls[1].conferenceId = srvConfs[1].id
        /\ calls[1].vendorId = srvVendors[1].id
        /\ calls[2].conferenceId = calls[1].conferenceId
        /\ calls[2].vendorId = calls[1].vendorId

(***************************************************************************)
(* C5. During entity resolution a failed lookup or creation request makes  *)
(* the resolver fail with that request's error: while a call is running    *)
(* no request of it has failed, and a call in which a request failed       *)
(* ended by throwing the error of the first request that failed.           *)
(***************************************************************************)
C5_FailuresPropagate ==
    /\ rPc # "idle" => failed = 0
    /\ \A i \in 1..Len(calls) :
            calls[i].failed # 0 =>
                /\ calls[i].t = "throw"
                /\ calls[i].err.kind \in {"http", "net"}
                /\ calls[i].err.of = calls[i].failed

(***************************************************************************)
(* C6. Once the upload has produced a session id, the enrichment request's *)
(* outcome does not change the result: uploadSession returns the session   *)
(* id and doUploadFlow reports success. A failed enrichment makes the      *)
(* upload flow add one warn-level entry, the last of the log; before it    *)
(* stand the HTTP client's own entries for the failed request, which in    *)
(* cb-api.js are an error-level entry and, for a blocked fetch, a hint.    *)
(***************************************************************************)
EnrichRequests == RequestsTo(ENRICH) \o RequestsTo(M_ENRICH)
EnrichId == EnrichRequests[1].id
FlowLog == IF script = "mobile" THEN elsLogs ELSE console
EnrichSettled ==
    /\ EnrichRequests # <<>>
    /\ IF script = "mobile" THEN flowPc = "done" ELSE upPc = "done"
EnrichFailed ==
    ~\E i \in 1..Len(FlowLog) :
        /\ FlowLog[i].id = EnrichId
        /\ FlowLog[i].extra = "response"
        /\ FlowLog[i].status \in 200..299

\* What the log gained after the enrichment request's entry, the response
\* entry of the request left aside.
EnrichAdded ==
    LET at == CHOOSE i \in 1..Len(FlowLog) :
                    FlowLog[i].id = EnrichId /\ FlowLog[i].extra = "request"
    IN  SelectSeq(SubSeq(FlowLog, at + 1, Len(FlowLog)), LAMBDA en : en.extra # "response")
LevelsOf(log) == [i \in 1..Len(log) |-> log[i].level]

EnrichResultStands ==
    IF script = "mobile"
    THEN alerts = <<"Upload complete">>
    ELSE sessionId # "" /\ ret = [t |-> "return", id |-> sessionId, err |-> NoError]

C6_EnrichmentNeverEscalates ==
    EnrichSettled =>
        /\ EnrichResultStands
        /\ EnrichFailed =>
            /\ EnrichAdded[Len(EnrichAdded)].level = "warn"
            /\ EnrichAdded[Len(EnrichAdded)].msg =
                    (IF script = "mobile" THEN MobileEnrichLine.msg ELSE EnrichWarning.msg)
            /\ LevelsOf(EnrichAdded) \in
                    (IF script = "mobile" THEN {<<"warn">>}
                     ELSE {<<"error", "warn">>, <<"error", "warn", "warn">>})
        /\ ~EnrichFailed => LevelsOf(EnrichAdded) = <<"info">>

\* uploadSession returned the session id after an enrichment request that the
\* browser blocked: error entry, hint, then the flow's warning.
C6_Witness ==
    /\ script = "cb-api"
    /\ EnrichSettled
    /\ EnrichFailed
    /\ ret = [t |-> "return", id |-> "S1", err |-> NoError]
    /\ LevelsOf(EnrichAdded) = <<"error", "warn", "warn">>

\* C6 as stated: the result stands, and a failed enrichment adds nothing to
\* the log but one warn-level entry.
C6_OnlyAWarnEntry ==
    EnrichSettled =>
        /\ EnrichResultStands
        /\ EnrichFailed => LevelsOf(EnrichAdded) = <<"warn">>

(***************************************************************************)
(* C7. A failed GET /sessions/{id} during post-upload polling does not     *)
(* turn the upload into a failure: a flow that got as far as polling ends  *)
(* with "Upload complete".                                                 *)
(***************************************************************************)
C7_PollFailureSwallowed ==
    (flowPc = "done" /\ RequestsTo(M_SESSION) # <<>>) =>
        alerts = <<"Upload complete">>

(***************************************************************************)
(* C8. pollProgress(sessionId) with its default tries issues at most tries *)
(* status requests; what it returns is the first reported status that is   *)
(* non-empty and not "created", or "unknown" when all tries responses      *)
(* reported "created" or nothing.                                          *)
(***************************************************************************)
ProgressChecks == SelectSeq(elsLogs, LAMBDA en : en.msg = "Progress check")

C8_PollBounded ==
    /\ Len(RequestsTo(M_SESSION)) <= PollTries
    /\ flowPc = "enrich" => prog # ""
    /\ prog # "" =>
        LET n == Len(ProgressChecks)
        IN  /\ n >= 1
            /\ n = Len(RequestsTo(M_SESSION))
            /\ \A i \in 1..(n - 1) : ProgressChecks[i].extra \in {"", "created"}
            /\ IF ProgressChecks[n].extra \in {"", "created"}
               THEN n = PollTries /\ prog = "unknown"
               ELSE prog = ProgressChecks[n].extra

\* All tries responses said "created" or nothing: "unknown" came back.
C8_Witness ==
    /\ flowPc = "enrich"
    /\ prog = "unknown"
    /\ Len(RequestsTo(M_SESSION)) = PollTries
    /\ \E i \in 1..Len(ProgressChecks) : ProgressChecks[i].extra = "created"

(***************************************************************************)
(* C11. No client hands a request to fetch while the base URL or the API   *)
(* key it reads is blank: a call made with either of them blank has sent   *)
(* nothing and has thrown an error that names the missing field. This is   *)
(* stated for apiFetch of cb-api.js, apiFetch of the second variant, and   *)
(* httpJSON/httpForm of the mobile script.                                 *)
(***************************************************************************)
ClientConfig ==
    IF script = "mobile" THEN getCfg
    ELSE IF script = "cb-api-2" THEN getConfig2
    ELSE IF getConfig = Null THEN [base |-> "", key |-> ""]
    ELSE [base |-> getConfig.url, key |-> getConfig.key]
NamesBaseUrl ==
    {"Missing API base URL. Open API Settings.", "API base URL not configured.",
     "API base URL is required."}
NamesApiKey == {"API key not configured.", "API key is required."}

C11_NoRequestWhileBlank ==
    /\ \A i \in 1..Len(sent) : sent[i].base # "" /\ sent[i].key # ""
    /\ (outcome # NoCall /\ ClientConfig.base = "") =>
            sent = <<>> /\ outcome.msg \in NamesBaseUrl
    /\ (outcome # NoCall /\ ClientConfig.base # "" /\ ClientConfig.key = "") =>
            sent = <<>> /\ outcome.msg \in NamesApiKey

(***************************************************************************)
(* C12. In both cb-api variants, after any setConfig(partial) calls,       *)
(* getConfig calls and restarts, getConfig() returns for every field the   *)
(* value the most recent setConfig that named the field gave it (a base    *)
(* URL up to its trailing slashes): no partial update erases or resets a   *)
(* field it did not name.                                                  *)
(***************************************************************************)
SameValue(a, b) == StripSlashes(a) = StripSlashes(b)

C12_ConfigKeepsSuppliedValues ==
    /\ script = "cb-api" =>
            \A f \in DOMAIN supplied.last :
                getConfig # Null /\ SameValue(getConfig[f], supplied.last[f])
    /\ script = "cb-api-2" =>
            \A f \in DOMAIN supplied.last : SameValue(getConfig2[f], supplied.last[f])

(***************************************************************************)
(* C13. Every request apiFetch of cb-api.js sends with a key configured    *)
(* carries that key in exactly one place (the X-API-Key header, the        *)
(* Authorization header or the query parameter), never in none and never   *)
(* in two, whatever the stored mode and the headers of the caller.         *)
(***************************************************************************)
Carries(value, key) == \E i \in DOMAIN value : value[i] = key
PlacesOfKey(req, key) ==
    Cardinality({h \in DOMAIN req.headers : Carries(req.headers[h], key)})
        + Cardinality({q \in DOMAIN req.query : Carries(req.query[q], key)})

C13_KeyInExactlyOnePlace ==
    script = "cb-api" =>
        \A i \in 1..Len(sent) :
            sent[i].key # "" => PlacesOfKey(sent[i].req, sent[i].key) = 1

(***************************************************************************)
(* C14. No log entry of any client shows an API key: in the url and in     *)
(* the headers a request entry shows, the key is replaced by a             *)
(* placeholder, so the log is the same whatever key is configured. This    *)
(* is stated for the logs of cb-api.js, of the second variant and of the   *)
(* mobile script.                                                          *)
(***************************************************************************)
ShowsKey(en) ==
    \E k \in ApiKeys \ {""} :
        \/ \E h \in DOMAIN en.shown.headers : Carries(en.shown.headers[h], k)
        \/ \E q \in DOMAIN en.shown.query : Carries(en.shown.query[q], k)

C14_KeyNeverLogged ==
    /\ \A i \in 1..Len(console) : ~ShowsKey(console[i])
    /\ \A i \in 1..Len(__logs) : ~ShowsKey(__logs[i])
    /\ \A i \in 1..Len(elsLogs) : ~ShowsKey(elsLogs[i])

(***************************************************************************)
(* C15. A request whose body is a FormData has no Content-Type header      *)
(* added by the client: it has one only if the caller passed one, and      *)
(* the requests of uploadSession (cb-api.js, the first, multipart attempt  *)
(* of an upload that may fall back to JSON), of httpForm (mobile script)   *)
(* and of addFilesToSession (second variant) have none.                    *)
(***************************************************************************)
FormCallers == {"uploadSession", "httpForm", "addFilesToSession"}

C15_NoContentTypeOnFormData ==
    \A i \in 1..Len(sent) :
        sent[i].req.body = "form" =>
            /\ "Content-Type" \in DOMAIN sent[i].req.headers
                    => "Content-Type" \in DOMAIN sent[i].call.headers
            /\ sent[i].call.caller \in FormCallers
                    => "Content-Type" \notin DOMAIN sent[i].req.headers

\* uploadSession's multipart attempt went out without a Content-Type, the
\* server refused it, and the JSON retry went out with one.
C15_Witness ==
    /\ Len(sent) = 2
    /\ sent[1].call.caller = "uploadSession"
    /\ sent[1].req.body = "form"
    /\ "Content-Type" \notin DOMAIN sent[1].req.headers
    /\ sent[2].req.body = "string"
    /\ sent[2].req.headers["Content-Type"] = JsonType

(***************************************************************************)
(* C16. For every audio input whose declared type is outside the accepted  *)
(* list or whose file name lacks a known extension, normalizeAudioFile     *)
(* returns a file whose name ends in one of mp3, wav, m4a, aac, ogg (in    *)
(* either case of letters) and whose type is the one mapped to that        *)
(* extension.                                                              *)
(***************************************************************************)
C16_ExtensionAndTypeMatch ==
    (/\ audioOut.t = "return"
     /\ ~audioIn.null
     /\ (audioIn.type \notin AllowedTypes \/ ~hasKnownExt(audioIn.name))) =>
        /\ ~audioOut.file.null
        /\ LowerExt(audioOut.file.name.ext) \in KnownExts
        /\ audioOut.file.type = typeMap[LowerExt(audioOut.file.name.ext)]

(***************************************************************************)
(* C17. After a successful upload response the session id is taken from    *)
(* the body when it has a bare id, an id under data, a session_id or a     *)
(* sessionId; when it has none of them the upload fails with the           *)
(* missing-session-id error and no enrichment request is issued.           *)
(***************************************************************************)
ClaimedIdShapes == {"id", "data.id", "session_id", "sessionId"}
UploadAnswers ==
    SelectSeq(console, LAMBDA en : /\ en.msg = "POST " \o UPLOAD
                                   /\ en.extra = "response"
                                   /\ en.status \in 200..299)

C17_SessionIdFromAnyShape ==
    (script = "cb-api" /\ upPc \in {"enrich", "done"}) =>
        \A i \in 1..Len(UploadAnswers) :
            IF UploadAnswers[i].shape \in ClaimedIdShapes
            THEN sessionId = "S1"
            ELSE /\ sessionId = ""
                 /\ ret = Rethrown(MissingIdError)
                 /\ RequestsTo(ENRICH) = <<>>

(***************************************************************************)
(* C18. cb-api.js pushLog and onLog: whatever callbacks are subscribed,    *)
(* throwing ones among them, every pushLog call puts exactly one entry     *)
(* into the buffer (the newest entry of the buffer is the one just         *)
(* recorded, and no entry is there twice), invokes each callback with      *)
(* that entry once per registration it has at that moment and not at all   *)
(* once it was removed through the function onLog returned, and lets no    *)
(* exception out.                                                          *)
(***************************************************************************)
C18_SubscribersIsolated ==
    /\ threw = FALSE
    /\ \A cb \in Callbacks : heard[cb] = subHist.due[cb]
    /\ nSinceClear > 0 => logs[Len(logs)].t = Len(console)
    /\ \A i, j \in 1..Len(logs) : i < j => logs[i].t < logs[j].t

\* The throwing callback was subscribed before "a"; both were invoked; "a"
\* was then removed, and entries recorded later reached only "bad".
C18_Witness ==
    /\ logSubscribers = <<"bad">>
    /\ subHist.active["a"] = 0
    /\ heard["a"] # <<>>
    /\ heard["bad"] # <<>>
    /\ heard["bad"][1] < heard["a"][1]
    /\ heard["a"][Len(heard["a"])] < Len(console)
    /\ heard["bad"][Len(heard["bad"])] = Len(console)

(***************************************************************************)
(* C21. In both cb-api variants each wrapper (listConferences,             *)
(* listVendorsForConference, createConference, createVendor, getVendor)    *)
(* returns the same value whether the server answers with the bare         *)
(* payload or with the payload under data, and an error of apiFetch        *)
(* reaches the wrapper's caller unchanged.                                 *)
(***************************************************************************)
C21_SameResultInBothShapes ==
    /\ (wrapOut["bare"].t = "return" /\ wrapOut["data"].t = "return") =>
            wrapOut["bare"].value = wrapOut["data"].value
    /\ \A shape \in Shapes :
            wrapOut[shape].t = "throw" => wrapOut[shape].raised = wrapOut[shape].err

(***************************************************************************)
(* C22. The JSON payload formDataToJsonPayload makes of a form built by    *)
(* uploadSession reads back to the form's conference id, vendor id, start  *)
(* and end timestamp and notes text, under the snake-case and the          *)
(* camel-case name alike, for every combination of these values; the       *)
(* audio part is the payload's audio and the image parts are its images,   *)
(* in order, each with its name and type and its bytes in base64.          *)
(***************************************************************************)
\* A field read back from a form and from a JSON payload ("" when absent).
FormValue(form, k) == Get(PlainOf(form), k)
JsonValue(json, k) == Get(json.plain, k)
PartsOf(form, k) == SelectSeq(form, LAMBDA p : p.blob /\ p.k = k)
SameFile(obj, part) ==
    /\ obj.filename = part.name
    /\ obj.content_type = part.type
    /\ obj.data = <<"base64", part.data>>

FlowPending == flowPc \in {"create", "batch", "fallback", "poll", "pollDelay", "enrich"}

C23_ExactlyOneAlert ==
    /\ [](Len(alerts) <= 1)
    /\ [](FlowPending => alerts = <<>>)
    /\ [](flowPc = "done" => Len(alerts) = 1)
    /\ [][alerts # <<>> => fetched' = fetched]_vars
    /\ (script = "mobile" => <>(Len(alerts) = 1))

\* The run failed on its third request, the one-shot fallback.
C23_Witness ==
    /\ alerts = <<"Upload failed">>
    /\ Len(fetched) = 3
    /\ fetched[3].path = M_UPLOAD

(***************************************************************************)
(* C24. When the multipart request of uploadSession fails, apiFetch goes   *)
(* on to the JSON retry exactly when the response was a 415, or a 500      *)
(* whose body contains "Unsupported Media Type" whatever its content       *)
(* type; after any other failure the error is thrown and no second         *)
(* request is sent.                                                        *)
(***************************************************************************)
SaysUnsupported(o) == o.status = 415 \/ (o.status = 500 /\ o.umt)

C24_FallbackIffUnsupported ==
    [][\A o \in Outcomes :
            (UploadPrimarySettles(o) /\ ~ResOk(o)) =>
                /\ (upPc' = "convert") <=> SaysUnsupported(o)
                /\ upPc' # "convert" =>
                        (fetched' = fetched /\ ret'.t = "throw" /\ ret'.err = ErrorOf(1, o))]_vars

(***************************************************************************)
(* C25. In doUploadFlow an error answer of /mobile/sessions/create or of   *)
(* /mobile/sessions/{id}/upload-batch is followed by the one-shot POST to  *)
(* /sessions/upload, sent once in a run; when that POST fails the run is   *)
(* over and no request follows.                                            *)
(***************************************************************************)
SendsOneShot ==
    /\ Len(fetched') = Len(fetched) + 1
    /\ fetched'[Len(fetched')].path = M_UPLOAD
OneShots == {i \in 1..Len(fetched) : fetched[i].path = M_UPLOAD}

C25_MobileErrorsFallBackOnce ==
    /\ [][/\ \A o \in MobileOutcomes, t \in {1, 2} :
                (MobileCreateSettles(o, t) /\ ~ResOk(o)) => SendsOneShot
          /\ \A o \in MobileOutcomes :
                (MobileBatchSettles(o) /\ ~ResOk(o)) => SendsOneShot
          /\ \A o \in MobileOutcomes :
                (MobileFallbackSettles(o) /\ ~ResOk(o)) =>
                    (fetched' = fetched /\ flowPc' = "done")]_vars
    /\ [](script = "mobile" => Cardinality(OneShots) <= 1)
    /\ [][flowPc = "done" => fetched' = fetched]_vars

(***************************************************************************)
(* C26. One run of an upload flow has at most one successful request that  *)
(* creates a session: in doUploadFlow the POSTs to /mobile/sessions/create *)
(* and /sessions/upload, in uploadSession the multipart POST and its JSON  *)
(* retry. A request answered with an error creates nothing.                *)
(***************************************************************************)
\* The answered-with-success lines of the mobile log that belong to a
\* request creating a session.
CreatingPaths == {"HTTP POST " \o M_CREATE, "HTTP POST " \o M_UPLOAD}
SessionsCreated ==
    {i \in 1..Len(elsLogs) :
        /\ elsLogs[i].extra = "response"
        /\ elsLogs[i].msg \in CreatingPaths
        /\ elsLogs[i].status >= 200 /\ elsLogs[i].status <= 299}
UploadsAfter == {i \in (Len(fetched) + 1)..Len(fetched') : fetched'[i].path = UPLOAD}

C26_AtMostOneSessionPerRun ==
    /\ [](Cardinality(SessionsCreated) <= 1)
    /\ [][\A o \in Outcomes :
            ((UploadPrimarySettles(o) \/ UploadFallbackSettles(o)) /\ ResOk(o)) =>
                upPc' \in {"enrich", "done"}]_vars
    /\ [][(upPc = "enrich" \/ upPc = "done") => UploadsAfter = {}]_vars

(***************************************************************************)
(* C27. When the JSON retry of uploadSession fails, its request rejected   *)
(* or its payload not built, the call rejects with the error of the        *)
(* multipart attempt and not with the retry's; the retry's error is        *)
(* written to the log, and the error entry of the multipart attempt is     *)
(* logged after it.                                                        *)
(***************************************************************************)
RetryFailedAt == {i \in 1..Len(console) : console[i].msg = "Retry-as-JSON failed"}
ErrorEntriesOf(id) ==
    {i \in 1..Len(console) : console[i].id = id /\ console[i].extra = "error"}

C27_RetryFailureRethrowsPrimary ==
    (script = "cb-api" /\ upPc = "done" /\ RetryFailedAt # {}) =>
        /\ ret.t = "throw"
        /\ ret.err = e
        /\ e.of = fetched[1].id
        /\ e.kind = "http"
        /\ Cardinality(RetryFailedAt) = 1
        /\ Cardinality(ErrorEntriesOf(fetched[1].id)) = 1
        /\ \A i \in RetryFailedAt, j \in ErrorEntriesOf(fetched[1].id) : i < j
        /\ Len(fetched) = 2 =>
                /\ ret.err.of # fetched[2].id
                /\ Cardinality(ErrorEntriesOf(fetched[2].id)) = 1
                /\ \A k \in ErrorEntriesOf(fetched[2].id), i \in RetryFailedAt : k < i

\* The retry was sent and answered with an error of its own.
C27_Witness ==
    /\ script = "cb-api"
    /\ upPc = "done"
    /\ RetryFailedAt # {}
    /\ Len(fetched) = 2
    /\ e.status = 415
    /\ \E i \in 1..Len(console) :
            console[i].id = 2 /\ console[i].extra = "response" /\ console[i].status = 500

(***************************************************************************)
(* C28. All requests of one upload run go to the same base URL and carry   *)
(* the same API key, those the run started with, also when the settings    *)
(* are changed while the run is under way.                                 *)
(***************************************************************************)
C28_OneConfigurationPerFlow ==
    \A i \in 1..Len(fetched) :
        /\ fetched[i].base = fetched[1].base
        /\ fetched[i].key = fetched[1].key

(***************************************************************************)
(* C29. When Upload is pressed again while a run of doUploadFlow awaits    *)
(* the network, the second run creates no session from the same notes,     *)
(* photos and audio: never have both runs had their create request         *)
(* answered with a session id for the same inputs.                         *)
(***************************************************************************)
SameInputs(a, b) ==
    /\ a.conferenceId = b.conferenceId /\ a.vendorId = b.vendorId
    /\ a.userNotes = b.userNotes /\ a.imageFiles = b.imageFiles /\ a.audio = b.audio

C29_OneFlowPerDraft ==
    ~(/\ parked # NotParked
      /\ parked.sessionId # ""
      /\ sessionId # ""
      /\ SameInputs(parked.draft, draft))

(***************************************************************************)
(* C30. doUploadFlow empties the notes, photo and audio inputs in the step *)
(* that ends the run in success and in no other step: a run that ends in   *)
(* failure leaves every input as it was, the conference and vendor         *)
(* selections are never touched, and with the conference or the vendor     *)
(* not selected no request is sent.                                        *)
(***************************************************************************)
EndsRun == flowPc # "done" /\ flowPc' = "done"
EndsInSuccess == EndsRun /\ alerts' = Append(alerts, "Upload complete")

C30_InputsClearedOnlyOnSuccess ==
    /\ [][EndsInSuccess =>
            els' = [conf |-> els.conf, vend |-> els.vend, notes |-> "", photos |-> 0,
                    audioFile |-> FALSE]]_vars
    /\ [][~EndsInSuccess => els' = els]_vars
    /\ [][(EndsRun /\ ~EndsInSuccess) => alerts' = Append(alerts, "Upload failed")]_vars
    /\ []((script = "mobile" /\ (els.conf = "" \/ els.vend = "")) => fetched = <<>>)

\* A run with notes, a photo and a recording ended in success.
C30_Witness ==
    /\ flowPc = "done"
    /\ alerts = <<"Upload complete">>
    /\ draft.userNotes = "hello" /\ draft.imageFiles = 1 /\ draft.audio
    /\ els = [conf |-> "C1", vend |-> "V1", notes |-> "", photos |-> 0, audioFile |-> FALSE]

(***************************************************************************)
(* C19. Entity resolution called with both a conference id and a vendor id *)
(* returns exactly those two ids, unless the vendor lookup succeeded and   *)
(* showed the vendor under another conference: only then is the vendor id  *)
(* replaced, by a vendor of the preferred name under the supplied          *)
(* conference, with a warning logged. The conference id is never changed.  *)
(***************************************************************************)
BothIdsGiven == args.conferenceId # 0 /\ args.vendorId # 0
VendorElsewhere ==
    /\ SrvHasVendor(args.vendorId)
    /\ SrvVendor(args.vendorId).conf # args.conferenceId

C19_BothIdsKept ==
    BothIdsGiven =>
        \A i \in 1..Len(calls) :
            /\ calls[i].t = "return" => calls[i].conferenceId = args.conferenceId
            /\ IF VendorElsewhere /\ Logged(console, "Vendor belongs to a different conference")
               THEN calls[i].t = "return" =>
                        \E j \in 1..Len(srvVendors) :
                            /\ srvVendors[j].id = calls[i].vendorId
                            /\ srvVendors[j].conf = args.conferenceId
                            /\ Lower(srvVendors[j].name) = Lower(VendorName)
               ELSE /\ calls[i].t = "return"
                    /\ calls[i].vendorId = args.vendorId

(***************************************************************************)
(* C20. Whenever entity resolution returns, both returned ids are concrete *)
(* (not undefined, null or empty), and an id the caller did not supply is  *)
(* the id of an entity that exists on the server, whether the server       *)
(* answers with bare bodies or with bodies wrapped under data.             *)
(***************************************************************************)
C20_ConcreteIds ==
    \A i \in 1..Len(calls) :
        calls[i].t = "return" =>
            /\ calls[i].conferenceId # 0
            /\ calls[i].vendorId # 0
            /\ calls[i].conferenceId # args.conferenceId =>
                    \E j \in 1..Len(srvConfs) : srvConfs[j].id = calls[i].conferenceId
            /\ calls[i].vendorId # args.vendorId =>
                    \E j \in 1..Len(srvVendors) : srvVendors[j].id = calls[i].vendorId

(***************************************************************************)
(* C9. cb-api.js, capacity N = LOG_CAP: after any sequence of pushLog and  *)
(* clearLogs calls the buffer holds at most N entries, and they are        *)
(* exactly the most recently emitted ones (the last min(N, k) of the k     *)
(* items emitted since the last clear) in emission order. So N+1 items     *)
(* emitted into an empty buffer leave N, the oldest evicted.               *)
(***************************************************************************)
C9_BufferHoldsMostRecent ==
    /\ Len(logs) <= LOG_CAP
    /\ Len(logs) = Min(LOG_CAP, nSinceClear)
    /\ logs = LastN(console, Min(LOG_CAP, nSinceClear))

\* N+1 items were emitted into the empty buffer: N are left, the first gone.
C9_Witness ==
    /\ nSinceClear = LOG_CAP + 1
    /\ Len(console) = LOG_CAP + 1
    /\ Len(logs) = LOG_CAP
    /\ logs = Tail(console)

(***************************************************************************)
(* C10. The __logs array of the second cb-api variant and the log text of  *)
(* the mobile script stay within a fixed capacity (the repository's only   *)
(* capacity, LOG_CAP) however many log calls are made without a clear.     *)
(***************************************************************************)
C10_OtherBuffersBounded ==
    /\ Len(__logs) <= LOG_CAP
    /\ Len(elsLogs) <= LOG_CAP

====
